---- MODULE Spec2Model ----
(***************************************************************************)
(* Verification model of the festival portal's data-access layer:          *)
(*   - ShortFilmCommentsService (comments / scores, three-tier fallback    *)
(*     read path, edit history)                                            *)
(*   - featureFilmService (film update and guest-subcollection resync)     *)
(* The document store is modelled as a map from document ids to documents; *)
(* every store call of a handler is one step, so that other calls can      *)
(* interleave at each await.                                               *)
(***************************************************************************)
EXTENDS Integers, Sequences, FiniteSets, TLC

(***************************************************************************)
(* Bounds of the model                                                     *)
(***************************************************************************)
MaxComments == 2      \* documents in one submission's ShortFilmComments
MaxClock == 3         \* last server time (in sub-millisecond ticks) a write can get
MaxEdits == 2         \* length of editHistory that the model follows
TicksPerMs == 2       \* server timestamp ticks per JavaScript Date millisecond

Keys == 1..MaxComments
Admins == {"", "A", "B"}
Callers == {1, 2}

(***************************************************************************)
(* JavaScript values                                                       *)
(***************************************************************************)
\* a field that is absent from an object (undefined)
Undefined == -1
\* scores: undefined on a comment
NoScores == [absent |-> TRUE]
\* documents that do not exist
NoDoc == [exists |-> FALSE]

\* x || 0 on a number-or-undefined value
OrZero(x) == IF x = Undefined \/ x = 0 THEN 0 ELSE x

\* String.prototype.trim on the comment texts the model uses
Trim(s) == IF s = " " THEN "" ELSE IF s = " c1 " THEN "c1" ELSE s

\* Timestamp.toDate(): a Date keeps whole milliseconds only
toDate(ts) == ts \div TicksPerMs

(***************************************************************************)
(* Field-mapping layer                                                     *)
(***************************************************************************)
\* (mutant) the mapping reads the persisted record without renaming humanEffort
mapDatabaseScoresToAppNoRename(dbScores) ==
    IF dbScores = NoScores THEN NoScores
    ELSE [technical  |-> OrZero(dbScores.technical),
          story      |-> OrZero(dbScores.story),
          creativity |-> OrZero(dbScores.creativity),
          chiangmai  |-> OrZero(dbScores.chiangmai),
          overall    |-> OrZero(dbScores.overall),
          totalScore |-> OrZero(dbScores.totalScore)]

mapDatabaseScoresToApp(dbScores) ==
    IF dbScores = NoScores THEN NoScores
    ELSE [technical  |-> OrZero(dbScores.technical),
          story      |-> OrZero(dbScores.story),
          creativity |-> OrZero(dbScores.creativity),
          chiangmai  |-> OrZero(dbScores.chiangmai),
          overall    |-> IF OrZero(dbScores.humanEffort) # 0
                         THEN dbScores.humanEffort
                         ELSE OrZero(dbScores.overall),
          totalScore |-> OrZero(dbScores.totalScore)]

\* (mutant) the mapping recomputes the total from the five criteria
mapAppScoresToDatabaseSummed(appScores) ==
    [technical   |-> OrZero(appScores.technical),
     story       |-> OrZero(appScores.story),
     creativity  |-> OrZero(appScores.creativity),
     chiangmai   |-> OrZero(appScores.chiangmai),
     humanEffort |-> OrZero(appScores.overall),
     overall     |-> Undefined,
     totalScore  |-> OrZero(appScores.technical) + OrZero(appScores.story)
                       + OrZero(appScores.creativity) + OrZero(appScores.chiangmai)
                       + OrZero(appScores.overall)]

\* (mutant) the mapping writes humanEffort from a field of that name, which
\* an application record does not have
mapAppScoresToDatabaseNoRename(appScores) ==
    [technical   |-> OrZero(appScores.technical),
     story       |-> OrZero(appScores.story),
     creativity  |-> OrZero(appScores.creativity),
     chiangmai   |-> OrZero(appScores.chiangmai),
     humanEffort |-> OrZero(Undefined),
     overall     |-> Undefined,
     totalScore  |-> OrZero(appScores.totalScore)]

mapAppScoresToDatabase(appScores) ==
    [technical   |-> OrZero(appScores.technical),
     story       |-> OrZero(appScores.story),
     creativity  |-> OrZero(appScores.creativity),
     chiangmai   |-> OrZero(appScores.chiangmai),
     humanEffort |-> OrZero(appScores.overall),
     overall     |-> Undefined,
     totalScore  |-> OrZero(appScores.totalScore)]

\* application score record
AppScore(t, s, c, m, o, tot) ==
    [technical |-> t, story |-> s, creativity |-> c, chiangmai |-> m,
     overall |-> o, totalScore |-> tot]

\* score records that callers pass to addScoringComment / updateScoringComment
ScoreInputs ==
    { AppScore(8, 7, 9, 6, 5, 35),      \* consistent total
      AppScore(1, 0, 2, 0, 3, 9) }      \* caller's total differs from the sum

\* comment texts that callers pass
ContentInputs == {"", " ", "c1"}

(***************************************************************************)
(* State                                                                   *)
(***************************************************************************)
VARIABLES
    docs,        \* ShortFilmComments subcollection: key -> document or NoDoc
    clock,       \* server time of the next write
    gc,          \* the getComments call in progress
    sub,         \* the subscribeToComments subscription
    usc,         \* updateScoringComment calls in progress, per caller
    ghost,       \* history of the writes, for stating the claims
    rt,          \* a score record on its way through the field mapping
    film,        \* the document of one film in the films collection
    guests,      \* the guests subcollection of that film
    uf,          \* updateFeatureFilm calls in progress, per caller
    serial,      \* number of updateFeatureFilm calls started
    latest,      \* the getLatestScoreByAdmin call and its result
    legacy,      \* a legacy film record on its way through the conversion
    svc,         \* one call of a featureFilmService operation and its result
    panel,       \* the state of one mounted VideoScoringPanel
    form,        \* the state of one useActivityForm hook
    acts         \* the state of one useActivities hook

commentVars == <<docs, clock, gc, sub, usc, ghost>>
filmVars == <<film, guests, uf, serial>>
\* the reads that change no document
readVars == <<latest, legacy, svc>>
\* the state of the components and hooks
uiVars == <<panel, form, acts>>
vars == <<commentVars, rt, filmVars, readVars, uiVars>>

\* the variables that the comments service does not touch
notComments == <<rt, filmVars, readVars, uiVars>>

(***************************************************************************)
(* Documents of the ShortFilmComments subcollection                        *)
(***************************************************************************)
\* The document that addGeneralComment / addScoringComment hand to addDoc.
\* adminName and adminEmail travel with adminId and are not told apart;
\* updatedAt is written and never read back by the service, it is left out.
\* metadata is an object of strings, a set of <<key, value>> pairs.
NoMetadata == {}

\* {...object, ...over}
Spread(object, over) ==
    {kv \in object : \A o \in over : o[1] # kv[1]} \cup over

NewComment(adminId, type, content, scores, metadata, now) ==
    [exists      |-> TRUE,
     adminId     |-> adminId,
     type        |-> type,
     content     |-> content,
     scores      |-> scores,
     metadata    |-> metadata,
     createdAt   |-> now,
     isEdited    |-> FALSE,
     isDeleted   |-> FALSE,
     editHistory |-> <<>>]

Existing == {k \in Keys : docs[k].exists}
FreeKeys == {k \in Keys : ~docs[k].exists}

(***************************************************************************)
(* Queries of the read path, as the store answers them                     *)
(***************************************************************************)
RECURSIVE KeyOrder(_)
\* the default order of a query without orderBy: by document id
KeyOrder(S) ==
    IF S = {} THEN <<>>
    ELSE LET k == CHOOSE x \in S : \A y \in S : x <= y
         IN  <<k>> \o KeyOrder(S \ {k})

RECURSIVE InsertDesc(_, _)
\* insert the pair p = <<sort key, value>> behind every pair whose sort key
\* is not smaller: a stable sort by (a, b) => b - a
InsertDesc(sorted, p) ==
    IF sorted = <<>> THEN <<p>>
    ELSE IF Head(sorted)[1] >= p[1]
         THEN <<Head(sorted)>> \o InsertDesc(Tail(sorted), p)
         ELSE <<p>> \o sorted

RECURSIVE SortDesc(_, _)
SortDesc(pairs, acc) ==
    IF pairs = <<>> THEN acc
    ELSE SortDesc(Tail(pairs), InsertDesc(acc, Head(pairs)))

Values(pairs) == [i \in 1..Len(pairs) |-> pairs[i][2]]

\* orderBy('createdAt', 'desc'): the store orders by the full timestamp
OrderByCreatedAtDesc(keys) ==
    Values(SortDesc([i \in 1..Len(keys) |-> <<docs[keys[i]].createdAt, keys[i]>>], <<>>))

\* the ids of the snapshot that getDocs / onSnapshot yields for a strategy
Snapshot(strategy) ==
    LET live == {k \in Existing : docs[k].isDeleted = FALSE}
    IN  CASE strategy = "filtered"   -> OrderByCreatedAtDesc(KeyOrder(live))
          [] strategy = "simple"     -> KeyOrder(live)
          [] strategy = "unfiltered" -> KeyOrder(Existing)

(***************************************************************************)
(* Processing of a snapshot (getComments and the snapshot listener)        *)
(***************************************************************************)
\* (mutant) the unfiltered strategy without its manual filter
SkipDeletedNever(strategy, data) == FALSE

\* the manual filter of the unfiltered strategy
SkipDeleted(strategy, data) == strategy = "unfiltered" /\ data.isDeleted = TRUE

\* the required-fields check
MissingRequired(data) == data.adminId = "" \/ data.type = ""

\* the ShortFilmComment built from one document
ToComment(id, data) ==
    [id        |-> id,
     adminId   |-> data.adminId,
     content   |-> data.content,
     type      |-> data.type,
     scores    |-> mapDatabaseScoresToApp(data.scores),
     createdAt |-> toDate(data.createdAt),
     isEdited  |-> data.isEdited,
     isDeleted |-> data.isDeleted]

RECURSIVE CollectComments(_, _)
\* snapshot.docs.forEach: skip or push, in snapshot order
CollectComments(ids, strategy) ==
    IF ids = <<>> THEN <<>>
    ELSE LET id   == Head(ids)
             data == docs[id]
             rest == CollectComments(Tail(ids), strategy)
         IN  IF SkipDeleted(strategy, data) \/ MissingRequired(data)
             THEN rest
             ELSE <<ToComment(id, data)>> \o rest

\* (mutant) only the unfiltered strategy is sorted on the client
NeedsClientSortUnfilteredOnly(strategy) == strategy = "unfiltered"

\* the strategies whose result is sorted on the client
NeedsClientSort(strategy) == strategy \in {"unfiltered", "simple"}

\* comments.sort((a, b) => b.createdAt.getTime() - a.createdAt.getTime())
ClientSort(comments) ==
    Values(SortDesc([i \in 1..Len(comments) |-> <<comments[i].createdAt, comments[i]>>], <<>>))

\* the list that a snapshot served by the given strategy becomes
ProcessSnapshot(strategy) ==
    LET comments == CollectComments(Snapshot(strategy), strategy)
    IN  IF NeedsClientSort(strategy) THEN ClientSort(comments) ELSE comments

(***************************************************************************)
(* Write path of the comments service                                      *)
(***************************************************************************)
Strategies == {"filtered", "simple", "unfiltered"}

\* updateScoringComment calls of comment k that have read and not yet written
Pending(k) == {q \in Callers : usc[q].pc = "read" /\ usc[q].commentId = k}

\* id is the document id that addDoc generates
\* The body of addGeneralComment; by is history, the function of the
\* service that the caller called.
StoreGeneralComment(by, id, adminId, content, metadata) ==
    /\ clock <= MaxClock
    /\ id \in FreeKeys
    /\ docs' = [docs EXCEPT ![id] =
                 NewComment(adminId, "general", content, NoScores, metadata, clock)]
    /\ clock' = clock + 1
    /\ ghost' = [ghost EXCEPT !.by[id] = by]
    /\ UNCHANGED <<notComments, gc, sub, usc>>

addGeneralComment(id, adminId, content, metadata) ==
    StoreGeneralComment("addGeneralComment", id, adminId, content, metadata)

\* return await this.addGeneralComment(..., content, {...metadata, type: 'status_change'})
\* (an absent reason is the empty string)
addStatusChangeComment(id, adminId, oldStatus, newStatus, reason) ==
    StoreGeneralComment("addStatusChangeComment", id, adminId,
        IF reason # "" THEN reason
        ELSE "Status changed from " \o oldStatus \o " to " \o newStatus,
        Spread({<<"oldStatus", oldStatus>>, <<"newStatus", newStatus>>,
                <<"reason", reason>>},
               {<<"type", "status_change">>}))

\* return await this.addGeneralComment(..., content, {...metadata, type: 'flag'})
addFlagComment(id, adminId, flagged, reason) ==
    StoreGeneralComment("addFlagComment", id, adminId,
        IF flagged
        THEN "Application flagged" \o (IF reason # "" THEN ": " \o reason ELSE "")
        ELSE "Application unflagged",
        Spread({<<"flagged", IF flagged THEN "true" ELSE "false">>,
                <<"reason", reason>>},
               {<<"type", "flag">>}))

addScoringComment(id, adminId, scores, content) ==
    /\ clock <= MaxClock
    /\ id \in FreeKeys
    /\ docs' = [docs EXCEPT ![id] =
                 NewComment(adminId, "scoring", content, mapAppScoresToDatabase(scores),
                            NoMetadata, clock)]
    /\ clock' = clock + 1
    /\ ghost' = [ghost EXCEPT !.supplied[id] = scores,
                              !.by[id] = "addScoringComment"]
    /\ UNCHANGED <<notComments, gc, sub, usc>>

updateComment(k, content) ==
    /\ docs[k].exists
    /\ docs' = [docs EXCEPT ![k] = [@ EXCEPT !.content = content,
                                             !.metadata = NoMetadata,
                                             !.isEdited = TRUE]]
    /\ ghost' = [ghost EXCEPT !.clean[k] = @ /\ Pending(k) = {}]
    /\ UNCHANGED <<notComments, clock, gc, sub, usc>>

\* (mutant) the soft delete also marks the comment as edited
SoftDeleteMarksEdited(doc) == [doc EXCEPT !.isDeleted = TRUE, !.isEdited = TRUE]

\* (mutant) the soft delete flips the flag
SoftDeleteToggles(doc) == [doc EXCEPT !.isDeleted = ~@]

\* updateDoc(commentRef, {isDeleted: true, updatedAt}) on the document
SoftDelete(doc) == [doc EXCEPT !.isDeleted = TRUE]

deleteComment(k) ==
    /\ docs[k].exists
    /\ docs' = [docs EXCEPT ![k] = SoftDelete(@)]
    /\ UNCHANGED <<notComments, clock, gc, sub, usc, ghost>>

\* the text that updateScoringComment generates for an empty comment
AutoContent(scores) ==
    "Score Assessment (Updated): " \o ToString(scores.totalScore) \o "/50 points"
      \o " T" \o ToString(scores.technical) \o " S" \o ToString(scores.story)
      \o " C" \o ToString(scores.creativity) \o " M" \o ToString(scores.chiangmai)
      \o " O" \o ToString(scores.overall)

\* the entry that updateScoringComment appends to editHistory
HistoryEntry(currentData, editedBy, now) ==
    [editedAt        |-> now,
     previousContent |-> currentData.content,
     previousScores  |-> currentData.scores,
     editedBy        |-> editedBy]

\* (mutant) updateScoringComment keeps the latest entry only
NewEditHistoryLatestOnly(currentData, editedBy, now) ==
    <<HistoryEntry(currentData, editedBy, now)>>

\* the editHistory that updateScoringComment writes
NewEditHistory(currentData, editedBy, now) ==
    Append(currentData.editHistory, HistoryEntry(currentData, editedBy, now))

\* catch (error) { throw new Error('Failed to update scoring comment') }
Rethrown(error) == "Failed to update scoring comment"

\* updateScoringComment has thrown: error is what the caller gets, cause
\* (history) is what was thrown inside the try.
Thrown(cause) == [pc |-> "threw", error |-> Rethrown(cause), cause |-> cause]

\* updateScoringComment up to the end of its getDoc
updateScoringCommentRead(p, k, scores, comments, editedBy) ==
    /\ usc[p].pc # "read"
    /\ IF ~docs[k].exists
       THEN usc' = [usc EXCEPT ![p] = Thrown("Comment not found")]
       ELSE /\ Len(ghost.pre[k]) + Cardinality(Pending(k)) < MaxEdits
            /\ usc' = [usc EXCEPT ![p] = [pc          |-> "read",
                                          commentId   |-> k,
                                          scores      |-> scores,
                                          comments    |-> comments,
                                          editedBy    |-> editedBy,
                                          currentData |-> docs[k]]]
    /\ UNCHANGED <<notComments, docs, clock, gc, sub, ghost>>

\* updateScoringComment from the return of getDoc to the end of updateDoc
updateScoringCommentWrite(p) ==
    /\ usc[p].pc = "read"
    /\ LET c       == usc[p]
           k       == c.commentId
           content == IF Trim(c.comments) = "" THEN AutoContent(c.scores)
                      ELSE Trim(c.comments)
       IN  /\ docs' = [docs EXCEPT ![k] =
                 [@ EXCEPT !.content     = content,
                           !.scores      = mapAppScoresToDatabase(c.scores),
                           !.isEdited    = TRUE,
                           !.editHistory = NewEditHistory(c.currentData, c.editedBy, clock),
                           !.metadata    = Spread(c.currentData.metadata,
                               {<<"actionType", "score_updated">>,
                                <<"scorePercentage", ToString(2 * c.scores.totalScore)>>})]]
           /\ ghost' = [ghost EXCEPT
                 !.pre[k]   = Append(@, [content |-> docs[k].content, scores |-> docs[k].scores]),
                 !.clean[k] = @ /\ Pending(k) = {p},
                 !.supplied[k] = c.scores]
    /\ usc' = [usc EXCEPT ![p] = [pc |-> "idle"]]
    /\ UNCHANGED <<notComments, clock, gc, sub>>

\* updateDoc of updateScoringComment rejected by the store
updateScoringCommentFail(p) ==
    /\ usc[p].pc = "read"
    /\ usc' = [usc EXCEPT ![p] = Thrown("updateDoc rejected")]
    /\ UNCHANGED <<notComments, docs, clock, gc, sub, ghost>>

\* the caller of updateScoringComment has the error
updateScoringCommentCaught(p) ==
    /\ usc[p].pc = "threw"
    /\ usc' = [usc EXCEPT ![p] = [pc |-> "idle"]]
    /\ UNCHANGED <<notComments, docs, clock, gc, sub, ghost>>

SomeThrew == \E p \in Callers : usc[p].pc = "threw"

\* the server clock advances (followed while a comment can still be stamped)
Tick ==
    /\ clock <= MaxClock
    /\ FreeKeys # {}
    /\ clock' = clock + 1
    /\ UNCHANGED <<notComments, docs, gc, sub, usc, ghost>>

(***************************************************************************)
(* getComments                                                             *)
(***************************************************************************)
SubmissionIds == {"", "S1"}

\* (mutant) a failed filtered strategy falls back to the unfiltered one
NextStrategySkipsSimple(strategy) ==
    CASE strategy = "filtered"   -> "unfiltered"
      [] strategy = "simple"     -> "unfiltered"
      [] strategy = "unfiltered" -> "none"

\* the strategy tried after a strategy failed ("none": no strategy is left)
NextStrategy(strategy) ==
    CASE strategy = "filtered"   -> "simple"
      [] strategy = "simple"     -> "unfiltered"
      [] strategy = "unfiltered" -> "none"

\* (mutant) getComments rethrows when the unfiltered query failed as well
AllStrategiesFailedThrows(call) ==
    [call EXCEPT !.pc = "threw", !.list = <<>>, !.strategy = "none"]

\* what getComments does when the unfiltered query failed as well
AllStrategiesFailed(call) ==
    [call EXCEPT !.pc = "returned", !.list = <<>>, !.strategy = "none"]

\* no getComments call in progress. queries counts the getDocs calls issued,
\* failed collects the strategies whose getDocs failed.
NoCall == [pc |-> "idle", queries |-> 0, failed |-> {}, list |-> <<>>, strategy |-> "none"]

\* getComments up to its first getDocs
getCommentsCall(submissionId) ==
    /\ gc.pc = "idle"
    /\ gc' = IF submissionId = ""
             THEN [gc EXCEPT !.pc = "returned"]
             ELSE [gc EXCEPT !.pc = "filtered", !.strategy = "filtered"]
    /\ UNCHANGED <<notComments, docs, clock, sub, usc, ghost>>

\* the getDocs of the current strategy succeeds: process the snapshot, return
getCommentsQueryOk ==
    /\ gc.pc \in Strategies
    /\ gc' = [gc EXCEPT !.pc      = "returned",
                         !.queries = @ + 1,
                         !.list    = ProcessSnapshot(gc.pc)]
    /\ UNCHANGED <<notComments, docs, clock, sub, usc, ghost>>

\* the getDocs of the current strategy fails: fall back, or give up
getCommentsQueryFail ==
    /\ gc.pc \in Strategies
    /\ LET failedCall == [gc EXCEPT !.queries = @ + 1, !.failed = @ \cup {gc.pc}]
       IN  gc' = IF NextStrategy(gc.pc) = "none"
                 THEN AllStrategiesFailed(failedCall)
                 ELSE [failedCall EXCEPT !.pc = NextStrategy(gc.pc),
                                         !.strategy = NextStrategy(gc.pc)]
    /\ UNCHANGED <<notComments, docs, clock, sub, usc, ghost>>

\* the caller of getComments takes the returned list
getCommentsReturn ==
    /\ gc.pc = "returned"
    /\ gc' = NoCall
    /\ UNCHANGED <<notComments, docs, clock, sub, usc, ghost>>

(***************************************************************************)
(* subscribeToComments                                                     *)
(***************************************************************************)
\* setupSubscription(query, strategyName): install a listener, keep its handle
setupSubscription(s, strategyName) ==
    [s EXCEPT !.state     = "listening",
              !.active    = @ \cup {strategyName},
              !.handle    = strategyName,
              !.installed = @ + 1]

\* (mutant) the returned handle removes the listener installed first
CallUnsubscribeFirst(s) == [s EXCEPT !.active = @ \ {"filtered"}]

\* if (unsubscribe) unsubscribe()
CallUnsubscribe(s) == [s EXCEPT !.active = @ \ {s.handle}]

\* callback(comments)
Callback(s, comments, strategyName) ==
    [s EXCEPT !.delivered = comments, !.called = TRUE, !.via = strategyName]

subscribeToComments(submissionId) ==
    /\ sub.state = "none"
    /\ sub' = IF submissionId = ""
              THEN [Callback(sub, <<>>, "none") EXCEPT !.state = "inert"]
              ELSE setupSubscription(sub, "filtered")
    /\ UNCHANGED <<notComments, docs, clock, gc, usc, ghost>>

\* the store pushes a snapshot to an active listener
onSnapshotNext(strategyName) ==
    /\ strategyName \in sub.active
    /\ sub' = Callback(sub, ProcessSnapshot(strategyName), strategyName)
    /\ UNCHANGED <<notComments, docs, clock, gc, usc, ghost>>

\* the store reports an error to an active listener, and drops the listener
onSnapshotError(strategyName) ==
    /\ strategyName \in sub.active
    /\ LET dropped == [sub EXCEPT !.active = @ \ {strategyName}]
       IN  sub' = IF NextStrategy(strategyName) = "none"
                  THEN [Callback(dropped, <<>>, "none") EXCEPT !.state = "exhausted"]
                  ELSE setupSubscription(CallUnsubscribe(dropped), NextStrategy(strategyName))
    /\ UNCHANGED <<notComments, docs, clock, gc, usc, ghost>>

\* the callback of the subscriber returns
callbackReturn ==
    /\ sub.called
    /\ sub' = [sub EXCEPT !.called = FALSE, !.delivered = <<>>, !.via = "none"]
    /\ UNCHANGED <<notComments, docs, clock, gc, usc, ghost>>

\* the caller invokes the unsubscribe handle that subscribeToComments returned
unsubscribeHandle ==
    /\ sub.state \in {"listening", "exhausted"}
    /\ sub' = [CallUnsubscribe(sub) EXCEPT !.state = "closed"]
    /\ UNCHANGED <<notComments, docs, clock, gc, usc, ghost>>

(***************************************************************************)
(* The comments service                                                    *)
(***************************************************************************)
\* values of the variables of the other services while they are at rest
NoRoundTrip == [stage |-> "none"]
NoFilm == [exists |-> FALSE]
NoUpdate == [pc |-> "idle"]

NoLatest == [pc |-> "idle"]
NoConversion == [stage |-> "none"]
\* no operation of featureFilmService has been called
NoService == [stage |-> "none"]
\* no VideoScoringPanel is mounted
NoPanel == [stage |-> "none"]
\* no useActivityForm hook is in use
NoForm == [stage |-> "none"]
\* no useActivities hook is in use
NoActivities == [stage |-> "none"]

InitComments ==
    /\ docs = [k \in Keys |-> NoDoc]
    /\ clock = 0
    /\ gc = NoCall
    /\ sub = [state |-> "none", handle |-> "none", active |-> {}, installed |-> 0,
              delivered |-> <<>>, called |-> FALSE, via |-> "none"]
    /\ usc = [p \in Callers |-> [pc |-> "idle"]]
    /\ ghost = [pre      |-> [k \in Keys |-> <<>>],
                clean    |-> [k \in Keys |-> TRUE],
                supplied |-> [k \in Keys |-> NoScores],
                by       |-> [k \in Keys |-> "none"]]
    /\ latest = NoLatest

\* no component is mounted and no hook is in use
NoUi ==
    /\ panel = NoPanel
    /\ form = NoForm
    /\ acts = NoActivities

\* the film service at rest
NoFilms ==
    /\ film = NoFilm
    /\ guests = {}
    /\ uf = [p \in Callers |-> NoUpdate]
    /\ serial = 0
    /\ legacy = NoConversion
    /\ svc = NoService
    /\ NoUi

Init ==
    /\ InitComments
    /\ rt = NoRoundTrip
    /\ NoFilms

\* A returned list, or a list handed to the callback, is taken by its
\* receiver before anything else happens: JavaScript runs the continuation of
\* the caller to completion.
Receiving == gc.pc = "returned" \/ sub.called

Receive ==
    \/ getCommentsReturn
    \/ callbackReturn

\* writes that reach the store while comments are read
WriteStep ==
    \/ \E k \in Keys, a \in {"", "A"} : addGeneralComment(k, a, "c1", NoMetadata)
    \/ \E k \in Keys, sc \in {AppScore(8, 7, 9, 6, 5, 35)} : addScoringComment(k, "A", sc, "")
    \/ \E k \in Keys : updateComment(k, "c2")
    \/ \E k \in Keys : deleteComment(k)
    \/ Tick

GetStep ==
    \/ \E s \in SubmissionIds : getCommentsCall(s)
    \/ getCommentsQueryOk
    \/ getCommentsQueryFail

SubscriptionStep ==
    \/ \E s \in SubmissionIds : subscribeToComments(s)
    \/ \E s \in Strategies : onSnapshotNext(s)
    \/ \E s \in Strategies : onSnapshotError(s)
    \/ unsubscribeHandle

\* The reader is followed through one read at a time: a getComments call,
\* or a subscription. The two share nothing but the store.
Next ==
    \/ Receiving /\ Receive
    \/ ~Receiving /\ WriteStep
    \/ ~Receiving /\ sub.state = "none" /\ GetStep
    \/ ~Receiving /\ gc.pc = "idle" /\ SubscriptionStep

Spec == Init /\ [][Next]_vars

(***************************************************************************)
(* The write path on one comment: overlapping updateScoringComment calls   *)
(***************************************************************************)
\* the admin who edits through a caller
Editor(p) == IF p = 1 THEN "A" ELSE "B"

\* the edit history of one comment is followed: comments are written by id
\* and the writes to different comments do not meet
\* and an error thrown to a caller is taken by it before anything else
\* happens
EditStep ==
    \/ \E p \in Callers : updateScoringCommentCaught(p)
    \/ ~SomeThrew /\ \E sc \in ScoreInputs :
         Existing = {} /\ addScoringComment(1, "A", sc, "")
    \/ ~SomeThrew /\ \E k \in Keys : updateComment(k, "c2")
    \/ ~SomeThrew /\ \E k \in Keys : deleteComment(k)
    \/ ~SomeThrew /\ \E p \in Callers, k \in Keys, sc \in ScoreInputs, c \in {" ", "c1"} :
         updateScoringCommentRead(p, k, sc, c, Editor(p))
    \/ ~SomeThrew /\ \E p \in Callers : updateScoringCommentWrite(p)
    \/ ~SomeThrew /\ \E p \in Callers : updateScoringCommentFail(p)

SpecEdit == Init /\ [][EditStep]_vars

(***************************************************************************)
(* The field mapping as a function: a score record is persisted, read back *)
(***************************************************************************)
MaxScore == 2        \* largest value of a score field that the model draws

\* a score field: absent, or a number
ScoreValues == {Undefined} \cup (0..MaxScore)

\* the application score records, well-formed or not
AppScoreSpace ==
    [technical : ScoreValues, story : ScoreValues, creativity : ScoreValues,
     chiangmai : ScoreValues, overall : ScoreValues, totalScore : ScoreValues]

InitScores ==
    /\ InitComments
    /\ NoFilms
    /\ rt \in {[stage |-> "app", app |-> x, db |-> NoScores, back |-> NoScores] :
                 x \in AppScoreSpace}

\* addScoringComment / updateScoringComment map the record for the store
persistScores ==
    /\ rt.stage = "app"
    /\ rt' = [rt EXCEPT !.stage = "db", !.db = mapAppScoresToDatabase(rt.app)]
    /\ UNCHANGED <<commentVars, filmVars, readVars, uiVars>>

\* getComments / getLatestScoreByAdmin map the stored record back
readScores ==
    /\ rt.stage = "db"
    /\ rt' = [rt EXCEPT !.stage = "read", !.back = mapDatabaseScoresToApp(rt.db)]
    /\ UNCHANGED <<commentVars, filmVars, readVars, uiVars>>

NextScores ==
    \/ persistScores
    \/ readScores

SpecScores == InitScores /\ [][NextScores]_vars

(***************************************************************************)
(* Claims about the read path                                              *)
(***************************************************************************)
\* the stored document of a returned comment is valid and not deleted
Live(comment) ==
    /\ docs[comment.id].exists
    /\ docs[comment.id].isDeleted = FALSE
    /\ comment.isDeleted = FALSE

\* some stored comment passes every filter of the read path
SomeLiveComment == \E k \in Existing : ~docs[k].isDeleted /\ ~MissingRequired(docs[k])

\* C1: whichever strategy serves the read, no comment whose stored isDeleted
\* is true is in the list that getComments returns or in a list that the
\* subscribeToComments callback receives.
C1_NoDeletedCommentReturned ==
    /\ gc.pc = "returned" => \A i \in 1..Len(gc.list) : Live(gc.list[i])
    /\ sub.called => \A i \in 1..Len(sub.delivered) : Live(sub.delivered[i])

\* C1 witness: the unfiltered strategy served a getComments call on a store
\* that holds a deleted comment, and returned a comment.
C1_Witness ==
    /\ gc.pc = "returned"
    /\ gc.strategy = "unfiltered"
    /\ Len(gc.list) > 0
    /\ \E k \in Existing : docs[k].isDeleted /\ ~MissingRequired(docs[k])

\* C2 (as claimed): on the same comments, getComments served by the simple
\* strategy returns the same list, in the same order, as getComments served
\* by the composite (filtered and ordered) strategy.
C2_SimpleSameAsComposite == ProcessSnapshot("simple") = ProcessSnapshot("filtered")

\* the createdAt values of a returned list never increase
SortedDesc(list) == \A i \in 1..(Len(list) - 1) : list[i].createdAt >= list[i + 1].createdAt

\* C3: the list that getComments returns, and every list that the
\* subscribeToComments callback receives, is ordered by createdAt descending,
\* whichever strategy produced it.
C3_ReturnedSortedDesc ==
    /\ gc.pc = "returned" => SortedDesc(gc.list)
    /\ sub.called => SortedDesc(sub.delivered)

\* C3 witness: the simple strategy served a call, and the client-side sort
\* moved a newer comment in front of an older one with a smaller document id.
C3_Witness ==
    /\ gc.pc = "returned"
    /\ gc.strategy = "simple"
    /\ Len(gc.list) >= 2
    /\ gc.list[1].createdAt > gc.list[2].createdAt
    /\ gc.list[1].id > gc.list[2].id

\* C4: getComments never throws; when all three queries failed it returns
\* the empty list; the simple query is issued only after the filtered one
\* failed and the unfiltered one only after the simple one failed, so a call
\* issues at most three queries.
C4_GetCommentsDegrades ==
    /\ gc.pc # "threw"
    /\ gc.queries <= 3
    /\ gc.pc = "filtered" => gc.queries = 0 /\ gc.failed = {}
    /\ gc.pc = "simple" => gc.queries = 1 /\ gc.failed = {"filtered"}
    /\ gc.pc = "unfiltered" => gc.queries = 2 /\ gc.failed = {"filtered", "simple"}
    /\ gc.pc = "returned" /\ gc.failed = Strategies => gc.list = <<>> /\ gc.queries = 3
    /\ gc.pc = "returned" /\ gc.strategy \in Strategies =>
          /\ gc.queries = Cardinality(gc.failed) + 1
          /\ gc.strategy \notin gc.failed

\* C4 witness: all three queries of a call failed on a store that holds a
\* comment the read path would return, and the call returned.
C4_Witness ==
    /\ gc.pc = "returned"
    /\ gc.failed = Strategies
    /\ SomeLiveComment

\* the one step from a strategy to the next weaker one
NextWeaker(from, to) ==
    <<from, to>> \in {<<"none", "filtered">>, <<"filtered", "simple">>, <<"simple", "unfiltered">>}

C6_EditHistoryHoldsPreStates ==
    \A k \in Existing :
        ghost.clean[k] =>
            /\ Len(docs[k].editHistory) = Len(ghost.pre[k])
            /\ \A i \in 1..Len(ghost.pre[k]) :
                 /\ docs[k].editHistory[i].previousContent = ghost.pre[k][i].content
                 /\ docs[k].editHistory[i].previousScores = ghost.pre[k][i].scores

\* C6 witness: two successive updates of a scoring comment, the second of
\* which recorded what the first one had written.
C6_Witness ==
    \E k \in Existing :
        /\ ghost.clean[k]
        /\ Len(ghost.pre[k]) = 2
        /\ Len(docs[k].editHistory) = 2
        /\ docs[k].editHistory[2].previousScores # docs[k].editHistory[1].previousScores
        /\ docs[k].editHistory[2].previousContent # docs[k].editHistory[1].previousContent

\* s is a prefix of t
IsPrefix(s, t) == Len(s) <= Len(t) /\ \A i \in 1..Len(s) : s[i] = t[i]

\* C7 (as claimed): under every interleaving of updateScoringComment,
\* updateComment and deleteComment calls on one comment, overlapping calls
\* included, each write leaves the stored editHistory a prefix of the new one.
C7_EditHistoryAppendOnly ==
    [][\A k \in Keys : docs[k].exists => IsPrefix(docs[k].editHistory, docs'[k].editHistory)]_vars

\* the sum of the five criteria of a persisted score record
CriteriaSum(dbScores) ==
    dbScores.technical + dbScores.story + dbScores.creativity
      + dbScores.chiangmai + dbScores.humanEffort

\* the scoring comments in the store
Scored == {k \in Existing : docs[k].scores # NoScores}

\* C8 (as claimed): every persisted scoring comment has
\* totalScore = technical + story + creativity + chiangmai + humanEffort.
C8_TotalIsSumOfCriteria ==
    \A k \in Scored : docs[k].scores.totalScore = CriteriaSum(docs[k].scores)

\* C8 (amended): every persisted scoring comment carries the five criteria
\* and the totalScore of the record its caller supplied last; the total is
\* the caller's, it is the sum of the criteria exactly when the caller's was.
C8_TotalIsCallersTotal ==
    \A k \in Scored :
        LET persisted == docs[k].scores
            given     == ghost.supplied[k]
        IN  /\ persisted.totalScore = given.totalScore
            /\ persisted.technical = given.technical
            /\ persisted.story = given.story
            /\ persisted.creativity = given.creativity
            /\ persisted.chiangmai = given.chiangmai
            /\ persisted.humanEffort = given.overall
            /\ (persisted.totalScore = CriteriaSum(persisted)) <=>
                 (given.totalScore = given.technical + given.story + given.creativity
                                       + given.chiangmai + given.overall)

\* C8 witness: an updateScoringComment call has stored a record whose total
\* is not the sum of its criteria.
C8_Witness ==
    \E k \in Scored :
        /\ docs[k].isEdited
        /\ Len(docs[k].editHistory) > 0
        /\ docs[k].scores.totalScore # CriteriaSum(docs[k].scores)

(***************************************************************************)
(* Claims about the field mapping                                          *)
(***************************************************************************)
\* every numeric field of an application score record is present
AllPresent(x) ==
    /\ x.technical # Undefined /\ x.story # Undefined /\ x.creativity # Undefined
    /\ x.chiangmai # Undefined /\ x.overall # Undefined /\ x.totalScore # Undefined

\* C9: for every application score record x whose six numeric fields are
\* present, mapDatabaseScoresToApp(mapAppScoresToDatabase(x)) equals x.
C9_RoundTripIsIdentity ==
    (rt.stage = "read" /\ AllPresent(rt.app)) => rt.back = rt.app

\* C9 witness: a record with a non-zero overall and a total that is not the
\* sum of its criteria has been persisted and read back.
C9_Witness ==
    /\ rt.stage = "read"
    /\ AllPresent(rt.app)
    /\ rt.app.overall > 0
    /\ rt.db.humanEffort = rt.app.overall
    /\ rt.app.totalScore # rt.app.technical + rt.app.story + rt.app.creativity
                             + rt.app.chiangmai + rt.app.overall

\* ---------------------------------------------------------------------------
\* Feature film service (featureFilmService.ts): crew extraction
\* ---------------------------------------------------------------------------

MaxUpdates == 2      \* updateFeatureFilm calls started in one behaviour

\* Names are sequences of characters, so that trim() and split(',') are
\* computed and not assumed.
RECURSIVE TrimStart(_)
TrimStart(s) ==
    IF s # <<>> /\ Head(s) = " " THEN TrimStart(Tail(s)) ELSE s

RECURSIVE TrimEnd(_)
TrimEnd(s) ==
    IF s # <<>> /\ s[Len(s)] = " " THEN TrimEnd(SubSeq(s, 1, Len(s) - 1)) ELSE s

\* String.prototype.trim
TrimChars(s) == TrimEnd(TrimStart(s))

\* String.prototype.split(',')
RECURSIVE SplitComma(_)
SplitComma(s) ==
    IF \A i \in 1..Len(s) : s[i] # ","
    THEN <<s>>
    ELSE LET i == CHOOSE n \in 1..Len(s) :
                      s[n] = "," /\ \A j \in 1..(n - 1) : s[j] # ","
         IN  <<SubSeq(s, 1, i - 1)>> \o SplitComma(SubSeq(s, i + 1, Len(s)))

\* A crew member as handed to createMultipleGuests (contact, otherRole and
\* remarks are carried along and take no part in any decision).
CrewMember(name, role) == [name |-> name, role |-> role]

\* PRIORITY 1: filmData.guests.forEach(...): guests with a non-blank name,
\* the name trimmed, role || 'Guest'.
RECURSIVE GuestsToCrew(_)
GuestsToCrew(gs) ==
    IF gs = <<>> THEN <<>>
    ELSE LET guest == Head(gs)
             name  == TrimChars(guest.name)
         IN  (IF name # <<>>
              THEN <<CrewMember(name, IF guest.role = "" THEN "Guest" ELSE guest.role)>>
              ELSE <<>>) \o GuestsToCrew(Tail(gs))

\* actors.forEach(...): the trimmed non-empty pieces, each an Actor.
RECURSIVE ActorsToCrew(_)
ActorsToCrew(actors) ==
    IF actors = <<>> THEN <<>>
    ELSE LET actor == TrimChars(Head(actors))
         IN  (IF actor # <<>> THEN <<CrewMember(actor, "Actor")>> ELSE <<>>)
                 \o ActorsToCrew(Tail(actors))

\* PRIORITY 2: director, producer, main actors of the flat fields.
BasicFieldsToCrew(filmData) ==
    (IF TrimChars(filmData.director) # <<>>
     THEN <<CrewMember(TrimChars(filmData.director), "Director")>> ELSE <<>>)
    \o (IF TrimChars(filmData.producer) # <<>>
        THEN <<CrewMember(TrimChars(filmData.producer), "Producer")>> ELSE <<>>)
    \o (IF TrimChars(filmData.mainActors) # <<>>
        THEN ActorsToCrew(SplitComma(filmData.mainActors)) ELSE <<>>)

\* A guest list that is present and non-empty decides alone ("return early"),
\* even when every one of its names is blank.
extractCrewMembersFromFilmData(filmData) ==
    IF Len(filmData.guests) > 0
    THEN GuestsToCrew(filmData.guests)
    ELSE BasicFieldsToCrew(filmData)

\* A File object of the form, and the absent one.
NoFile == [absent |-> TRUE]

File(name) == [name |-> name]

\* filmData of a call; an absent guests field is the empty list, an absent
\* text field the empty string (both are falsy in the tests above).  These
\* inputs carry no poster, trailer or gallery file.
FilmData(gs, director, producer, mainActors) ==
    [guests |-> gs, director |-> director, producer |-> producer,
     mainActors |-> mainActors,
     posterFile |-> NoFile, trailerFile |-> NoFile, galleryFiles |-> <<>>,
     galleryUrls |-> <<>>]

Guest(name, role) == [name |-> name, role |-> role]

FilmInputs ==
    { \* an explicit guest list: it wins over the director field
      FilmData(<<Guest(<<"a", " ">>, ""), Guest(<<" ">>, "Other"), Guest(<<"b">>, "Actor")>>,
               <<"d">>, <<>>, <<>>),
      \* no guest list: director and two actors, three crew members
      FilmData(<<>>, <<" ", "d">>, <<" ">>, <<"a", ",", " ", "b", ",">>),
      \* nothing at all
      FilmData(<<>>, <<>>, <<>>, <<>>),
      \* a guest list with blank names only
      FilmData(<<Guest(<<" ">>, "")>>, <<"d">>, <<>>, <<>>) }

\* ---------------------------------------------------------------------------
\* Feature film service: updateFeatureFilm and deleteFeatureFilm
\* ---------------------------------------------------------------------------

MaxGallery == 2      \* gallery files attached to one call

\* uploadFile(file, path) resolved: the url of the stored file.
Url(file) == "url:" \o file.name

\* updatedData of uploadFeatureFilmFiles: the keys that were set and their
\* values.
NoData == [keys |-> {}, posterUrl |-> "", trailerUrl |-> "", galleryUrls |-> <<>>]

\* What uploadFeatureFilmFiles returns when there is nothing to upload;
\* attempted and failed are history, the files whose uploadFile was called
\* and those whose uploadFile threw.
NoUpload == [updatedData |-> NoData, errors |-> <<>>, attempted |-> {}, failed |-> {}]

hasFiles(filmData) ==
    \/ filmData.posterFile # NoFile
    \/ filmData.trailerFile # NoFile
    \/ Len(filmData.galleryFiles) > 0

\* The ways the uploads of a call can go: whether the poster and the trailer
\* upload resolve, and the gallery file whose upload throws (0: none; the
\* loop ends there, so the files after it have no outcome).
UploadOutcomes(filmData) ==
    [poster  : IF filmData.posterFile # NoFile THEN BOOLEAN ELSE {TRUE},
     trailer : IF filmData.trailerFile # NoFile THEN BOOLEAN ELSE {TRUE},
     galleryThrows : 0..Len(filmData.galleryFiles)]

\* if (filmData.posterFile) { try { ...posterUrl = url } catch { errors.push } }
UploadPoster(filmData, outcome, r) ==
    IF filmData.posterFile = NoFile THEN r
    ELSE IF outcome.poster
    THEN [r EXCEPT !.updatedData.keys = @ \cup {"posterUrl"},
                   !.updatedData.posterUrl = Url(filmData.posterFile),
                   !.attempted = @ \cup {filmData.posterFile}]
    ELSE [r EXCEPT !.errors = Append(@, "Failed to upload poster"),
                   !.attempted = @ \cup {filmData.posterFile},
                   !.failed = @ \cup {filmData.posterFile}]

UploadTrailer(filmData, outcome, r) ==
    IF filmData.trailerFile = NoFile THEN r
    ELSE IF outcome.trailer
    THEN [r EXCEPT !.updatedData.keys = @ \cup {"trailerUrl"},
                   !.updatedData.trailerUrl = Url(filmData.trailerFile),
                   !.attempted = @ \cup {filmData.trailerFile}]
    ELSE [r EXCEPT !.errors = Append(@, "Failed to upload trailer"),
                   !.attempted = @ \cup {filmData.trailerFile},
                   !.failed = @ \cup {filmData.trailerFile}]

\* One try around the whole loop: the first upload that throws ends the
\* loop, and galleryUrls is set only when every upload resolved.
UploadGallery(filmData, outcome, r) ==
    LET files == filmData.galleryFiles
        k     == outcome.galleryThrows
    IN  IF Len(files) = 0 THEN r
        ELSE IF k = 0
        THEN [r EXCEPT !.updatedData.keys = @ \cup {"galleryUrls"},
                       !.updatedData.galleryUrls =
                           SelectSeq(filmData.galleryUrls, LAMBDA url : Trim(url) # "")
                               \o [i \in 1..Len(files) |-> Url(files[i])],
                       !.attempted = @ \cup {files[i] : i \in 1..Len(files)}]
        ELSE [r EXCEPT !.errors = Append(@, "Failed to upload gallery files"),
                       !.attempted = @ \cup {files[i] : i \in 1..k},
                       !.failed = @ \cup {files[k]}]

uploadFeatureFilmFiles(filmData, outcome) ==
    UploadGallery(filmData, outcome,
        UploadTrailer(filmData, outcome,
            UploadPoster(filmData, outcome, NoUpload)))

\* updateDoc(ref, {...updatedData}): the keys that are set overwrite.
WriteUrls(doc, updatedData) ==
    [doc EXCEPT !.posterUrl   = IF "posterUrl" \in updatedData.keys
                                THEN updatedData.posterUrl ELSE @,
                !.trailerUrl  = IF "trailerUrl" \in updatedData.keys
                                THEN updatedData.trailerUrl ELSE @,
                !.galleryUrls = IF "galleryUrls" \in updatedData.keys
                                THEN updatedData.galleryUrls ELSE @]

\* The primary document that addDoc(collection, docData) creates: the film
\* data without its guests and File objects.
FilmDoc(filmData) ==
    [exists |-> TRUE, director |-> filmData.director,
     producer |-> filmData.producer, mainActors |-> filmData.mainActors,
     posterUrl |-> "", trailerUrl |-> "", galleryUrls |-> filmData.galleryUrls]

\* The primary document that updateDoc(filmRef, updateData) leaves, with
\* updateData = {...cleanFilmData, ...fileUploadData}.
UpdatedFilm(old, filmData, fileUploadData) ==
    WriteUrls([FilmDoc(filmData) EXCEPT !.posterUrl = old.posterUrl,
                                        !.trailerUrl = old.trailerUrl],
              fileUploadData)

\* The documents of the guests subcollection that one createMultipleGuests
\* call writes: one per crew member, with ids of their own (gen is the call
\* that wrote them, idx the position in its list).
GuestDocs(crew, gen) ==
    { [gen |-> gen, idx |-> i, name |-> crew[i].name, role |-> crew[i].role] :
        i \in 1..Len(crew) }

\* guestService is imported and not part of the sources at hand; what its two
\* functions do to the subcollection is taken from the specification: delete
\* every guest of the film, and add one guest per crew member.
deleteAllGuests(gs) == {}

createMultipleGuests(gs, crew, gen) == gs \cup GuestDocs(crew, gen)

InProgress(p) == uf[p].pc \notin {"idle", "returned"}

FilmReturned == \E p \in Callers : uf[p].pc = "returned"

\* A store call made by updateFeatureFilm and whether it succeeded.
Op(name, ok) == [op |-> name, ok |-> ok]

\* The call of a caller that starts, as the calls that overlap it see it.
Peer(gen, filmData) == [gen |-> gen, filmData |-> filmData]

Others(p) == { q \in Callers \ {p} : InProgress(q) }

\* A store call of p failed: the calls that overlap p take note of it.
NotePeerError(p) ==
    [q \in Callers |-> IF q \in Others(p) THEN [uf[q] EXCEPT !.peerError = TRUE]
                                          ELSE uf[q]]

\* The call starts.  The fields from alone on are history: whether no other
\* update ran while this one did, how many guests there were at the start,
\* the calls that overlapped this one and whether a store call of theirs
\* failed, whether a store call of this one failed, and the store calls of
\* this one in the order they were made.
StartCall(p, op, filmData) ==
    [q \in Callers |->
        IF q = p
        THEN [pc |-> IF op = "create" THEN "addDoc"
                     ELSE IF hasFiles(filmData) THEN "uploadFiles" ELSE "updateDoc",
              op |-> op,
              filmData |-> filmData, gen |-> serial + 1,
              upload |-> NoUpload,
              crew |-> <<>>, success |-> FALSE, guestError |-> FALSE,
              alone |-> Others(p) = {},
              before |-> Cardinality(guests),
              peers |-> { Peer(uf[o].gen, uf[o].filmData) : o \in Others(p) },
              peerError |-> \E o \in Others(p) : uf[o].storeError,
              storeError |-> FALSE,
              ops |-> <<>>]
        ELSE IF InProgress(q)
        THEN [uf[q] EXCEPT !.alone = FALSE,
                           !.peers = @ \cup {Peer(serial + 1, filmData)}]
        ELSE uf[q]]

updateFeatureFilmCall(p, filmData) ==
    /\ uf[p].pc = "idle"
    /\ serial < MaxUpdates
    /\ serial' = serial + 1
    /\ uf' = StartCall(p, "update", filmData)
    /\ UNCHANGED <<commentVars, rt, readVars, uiVars, film, guests>>

\* { updatedData, errors } = await uploadFeatureFilmFiles(...): the errors are
\* logged, the call goes on.  In createFeatureFilm the urls are written with
\* an updateDoc of their own when there are any, in updateFeatureFilm they
\* go into the one updateDoc.
\* if (crewMembers.length > 0) createMultipleGuests, in createFeatureFilm.
AfterFiles(crew) ==
    IF Len(crew) > 0 THEN "createMultipleGuests" ELSE "getDoc"

AfterUpload(op, result, crew) ==
    IF op = "create"
    THEN (IF result.updatedData.keys # {} THEN "updateUrls" ELSE AfterFiles(crew))
    ELSE "updateDoc"

uploadFiles(p) ==
    /\ uf[p].pc = "uploadFiles"
    /\ \E outcome \in UploadOutcomes(uf[p].filmData) :
          LET result == uploadFeatureFilmFiles(uf[p].filmData, outcome)
          IN  uf' = [uf EXCEPT ![p].upload = result,
                               ![p].pc = AfterUpload(uf[p].op, result, uf[p].crew)]
    /\ UNCHANGED <<commentVars, rt, readVars, uiVars, film, guests, serial>>

\* "Always delete existing guests first": after the primary update comes
\* deleteAllGuests, whatever the crew.
AfterUpdateDocSkipsDelete(crew) ==
    IF Len(crew) > 0 THEN "createMultipleGuests" ELSE "getDoc"

AfterUpdateDoc(crew) == "deleteAllGuests"

\* await updateDoc(filmRef, updateData) succeeded (the document exists);
\* crewMembers = extractCrewMembersFromFilmData(filmData).
updateDocOk(p) ==
    /\ uf[p].pc = "updateDoc"
    /\ film.exists
    /\ film' = UpdatedFilm(film, uf[p].filmData, uf[p].upload.updatedData)
    /\ uf' = [uf EXCEPT ![p].pc = AfterUpdateDoc(extractCrewMembersFromFilmData(uf[p].filmData)),
                        ![p].crew = extractCrewMembersFromFilmData(uf[p].filmData),
                        ![p].ops = Append(@, Op("updateDoc", TRUE))]
    /\ UNCHANGED <<commentVars, rt, readVars, uiVars, guests, serial>>

\* updateDoc threw (no such document, or the store failed): the outer catch
\* returns success: false and the guests are not touched.
updateDocFail(p) ==
    /\ uf[p].pc = "updateDoc"
    /\ uf' = [NotePeerError(p) EXCEPT ![p].pc = "returned", ![p].success = FALSE,
                                      ![p].storeError = TRUE,
                                      ![p].ops = Append(@, Op("updateDoc", FALSE))]
    /\ UNCHANGED <<commentVars, rt, readVars, uiVars, film, guests, serial>>

\* if (crewMembers.length > 0) createMultipleGuests, else straight to getDoc.
AfterDeleteNeverCreates(crew) == "getDoc"

AfterDeleteAlwaysCreates(crew) == "createMultipleGuests"

AfterDelete(crew) ==
    IF Len(crew) > 0 THEN "createMultipleGuests" ELSE "getDoc"

deleteAllGuestsOk(p) ==
    /\ uf[p].pc = "deleteAllGuests"
    /\ guests' = deleteAllGuests(guests)
    /\ uf' = [uf EXCEPT ![p].pc = AfterDelete(uf[p].crew),
                        ![p].ops = Append(@, Op("deleteAllGuests", TRUE))]
    /\ UNCHANGED <<commentVars, rt, readVars, uiVars, film, serial>>

\* catch (guestError): "Don't fail the entire film update if guest update
\* fails"; the call goes on to read the film back.
AfterGuestErrorRethrows == "returned"

AfterGuestError == "getDoc"

\* deleteAllGuests threw, having deleted some, all or none of the guests: the
\* inner catch logs it, createMultipleGuests is skipped.
deleteAllGuestsFail(p) ==
    /\ uf[p].pc = "deleteAllGuests"
    /\ \E left \in SUBSET guests : guests' = left
    /\ uf' = [NotePeerError(p) EXCEPT ![p].pc = AfterGuestError, ![p].guestError = TRUE,
                                      ![p].storeError = TRUE,
                                      ![p].ops = Append(@, Op("deleteAllGuests", FALSE))]
    /\ UNCHANGED <<commentVars, rt, readVars, uiVars, film, serial>>

createMultipleGuestsOk(p) ==
    /\ uf[p].pc = "createMultipleGuests"
    /\ guests' = createMultipleGuests(guests, uf[p].crew, uf[p].gen)
    /\ uf' = [uf EXCEPT ![p].pc = "getDoc",
                        ![p].ops = Append(@, Op("createMultipleGuests", TRUE))]
    /\ UNCHANGED <<commentVars, rt, readVars, uiVars, film, serial>>

\* createMultipleGuests threw, having written the first n crew members.
createMultipleGuestsFail(p) ==
    /\ uf[p].pc = "createMultipleGuests"
    /\ \E n \in 0..Len(uf[p].crew) :
          guests' = createMultipleGuests(guests, SubSeq(uf[p].crew, 1, n), uf[p].gen)
    /\ uf' = [NotePeerError(p) EXCEPT ![p].pc = AfterGuestError, ![p].guestError = TRUE,
                                      ![p].storeError = TRUE,
                                      ![p].ops = Append(@, Op("createMultipleGuests", FALSE))]
    /\ UNCHANGED <<commentVars, rt, readVars, uiVars, film, serial>>

\* updatedDoc = await getDoc(filmRef): success is updatedDoc.exists().
getDocOk(p) ==
    /\ uf[p].pc = "getDoc"
    /\ uf' = [uf EXCEPT ![p].pc = "returned", ![p].success = film.exists,
                        ![p].ops = Append(@, Op("getDoc", TRUE))]
    /\ UNCHANGED <<commentVars, rt, readVars, uiVars, film, guests, serial>>

\* getDoc threw: the outer catch returns success: false.
getDocFail(p) ==
    /\ uf[p].pc = "getDoc"
    /\ uf' = [NotePeerError(p) EXCEPT ![p].pc = "returned", ![p].success = FALSE,
                                      ![p].storeError = TRUE,
                                      ![p].ops = Append(@, Op("getDoc", FALSE))]
    /\ UNCHANGED <<commentVars, rt, readVars, uiVars, film, guests, serial>>

\* The caller has the result.
updateFeatureFilmReturn(p) ==
    /\ uf[p].pc = "returned"
    /\ uf' = [uf EXCEPT ![p] = NoUpdate]
    /\ UNCHANGED <<commentVars, rt, readVars, uiVars, film, guests, serial>>

\* deleteDoc(docRef) on the film; the guests subcollection is left as it is.
\* (A failing deleteDoc changes nothing and returns success: false.)
deleteFeatureFilm ==
    /\ film.exists
    /\ film' = NoFilm
    /\ UNCHANGED <<commentVars, rt, readVars, uiVars, guests, uf, serial>>

\* The film exists, created by createFeatureFilm from one of the inputs with
\* its guest synchronisation gone through (generation 0).
InitFilm ==
    /\ InitComments
    /\ rt = NoRoundTrip
    /\ \E filmData \in FilmInputs :
          /\ film = FilmDoc(filmData)
          /\ guests = GuestDocs(extractCrewMembersFromFilmData(filmData), 0)
    /\ uf = [p \in Callers |-> NoUpdate]
    /\ serial = 0
    /\ legacy = NoConversion
    /\ svc = NoService
    /\ NoUi

\* A returned result is taken by its caller before anything else happens.
NextFilm ==
    \/ \E p \in Callers : updateFeatureFilmReturn(p)
    \/ ~FilmReturned /\ \E p \in Callers, filmData \in FilmInputs :
                            updateFeatureFilmCall(p, filmData)
    \/ ~FilmReturned /\ \E p \in Callers : updateDocOk(p)
    \/ ~FilmReturned /\ \E p \in Callers : updateDocFail(p)
    \/ ~FilmReturned /\ \E p \in Callers : deleteAllGuestsOk(p)
    \/ ~FilmReturned /\ \E p \in Callers : deleteAllGuestsFail(p)
    \/ ~FilmReturned /\ \E p \in Callers : createMultipleGuestsOk(p)
    \/ ~FilmReturned /\ \E p \in Callers : createMultipleGuestsFail(p)
    \/ ~FilmReturned /\ \E p \in Callers : getDocOk(p)
    \/ ~FilmReturned /\ \E p \in Callers : getDocFail(p)
    \/ ~FilmReturned /\ deleteFeatureFilm

SpecFilm == InitFilm /\ [][NextFilm]_vars

CrewOfCalls(p) ==
    UNION { GuestDocs(extractCrewMembersFromFilmData(c.filmData), c.gen) :
              c \in uf[p].peers \cup {Peer(uf[p].gen, uf[p].filmData)} }

\* The later of two or more overlapping calls has completed, the others
\* have too, and no store call of any of them failed.
OverlapCompleted(p) ==
    /\ uf[p].pc = "returned"
    /\ Others(p) = {}
    /\ uf[p].peers # {}
    /\ ~uf[p].storeError /\ ~uf[p].peerError

\* C11: when updateFeatureFilm calls on the same film overlap and all their
\* store calls succeed, then once they have completed every guest in the
\* subcollection comes from the derived crew of one of these calls, and
\* none was there before them.
C11_OverlapLeavesOnlyTheirCrews ==
    \A p \in Callers :
        OverlapCompleted(p)
            => /\ guests \subseteq CrewOfCalls(p)
               /\ \A g \in guests : g.gen > 0

\* Last-writer-wins is not guaranteed: two overlapping calls have completed
\* and the subcollection holds guests of both.
C11_Witness ==
    \E p \in Callers :
        /\ OverlapCompleted(p)
        /\ \E g \in guests : g.gen = uf[p].gen
        /\ \E g \in guests : g.gen # uf[p].gen /\ g.gen > 0

\* C12: within one updateFeatureFilm call the store calls come in the order
\* updateDoc of the film, deleteAllGuests, createMultipleGuests, the last
\* one made only for a non-empty derived crew (and made whenever the crew is
\* non-empty and nothing failed); a call whose updateDoc failed makes no
\* call on the guest subcollection.
C12_StoreCallsInOrder ==
    \A p \in Callers :
        uf[p].pc # "idle" =>
            LET ops == uf[p].ops
                derived == extractCrewMembersFromFilmData(uf[p].filmData)
            IN  /\ ops # <<>> => ops[1].op = "updateDoc"
                /\ \A i \in 1..Len(ops) :
                      /\ ops[i].op = "deleteAllGuests" => i = 2
                      /\ ops[i].op = "createMultipleGuests"
                            => /\ i = 3
                               /\ ops[2] = Op("deleteAllGuests", TRUE)
                               /\ Len(derived) > 0
                /\ (ops # <<>> /\ ~ops[1].ok) => Len(ops) = 1
                /\ (uf[p].pc = "returned" /\ ~uf[p].storeError /\ Len(derived) > 0)
                      => ops[3].op = "createMultipleGuests"

\* A call with a non-empty crew has made its three writes in order.
C12_Witness ==
    \E p \in Callers :
        /\ uf[p].pc = "returned"
        /\ Len(uf[p].crew) > 0
        /\ uf[p].ops = <<Op("updateDoc", TRUE), Op("deleteAllGuests", TRUE),
                         Op("createMultipleGuests", TRUE), Op("getDoc", TRUE)>>

\* ---------------------------------------------------------------------------
\* Feature film service: createFeatureFilm, with file uploads
\* ---------------------------------------------------------------------------

\* filmData with File objects attached and the gallery urls the form holds.
WithFiles(filmData, posterFile, trailerFile, galleryFiles, galleryUrls) ==
    [filmData EXCEPT !.posterFile = posterFile, !.trailerFile = trailerFile,
                     !.galleryFiles = galleryFiles, !.galleryUrls = galleryUrls]

Gallery(n) == [i \in 1..n |-> File("g" \o ToString(i))]

UploadInputs ==
    { \* every kind of file, a crew of three, a blank and a kept gallery url
      WithFiles(FilmData(<<>>, <<" ", "d">>, <<" ">>, <<"a", ",", " ", "b", ",">>),
                File("poster"), File("trailer"), Gallery(MaxGallery),
                <<" ", "url:g0">>),
      \* a poster alone, an explicit guest
      WithFiles(FilmData(<<Guest(<<"b">>, "Actor")>>, <<"d">>, <<>>, <<>>),
                File("poster"), NoFile, <<>>, <<>>),
      \* one gallery file, no crew
      WithFiles(FilmData(<<>>, <<>>, <<>>, <<>>),
                NoFile, NoFile, Gallery(1), <<>>),
      \* no file
      FilmData(<<>>, <<"d">>, <<>>, <<>>) }

\* The call starts; the film followed is the one it creates.
createFeatureFilmCall(p, filmData) ==
    /\ uf[p].pc = "idle"
    /\ serial = 0
    /\ serial' = serial + 1
    /\ uf' = StartCall(p, "create", filmData)
    /\ UNCHANGED <<commentVars, rt, readVars, uiVars, film, guests>>

\* docRef = await addDoc(collection, docData); then the uploads if files are
\* attached, else the guests.
addDocOk(p) ==
    /\ uf[p].pc = "addDoc"
    /\ film' = FilmDoc(uf[p].filmData)
    /\ LET crew == extractCrewMembersFromFilmData(uf[p].filmData)
       IN  uf' = [uf EXCEPT ![p].pc = IF hasFiles(uf[p].filmData)
                                      THEN "uploadFiles" ELSE AfterFiles(crew),
                            ![p].crew = crew,
                            ![p].ops = Append(@, Op("addDoc", TRUE))]
    /\ UNCHANGED <<commentVars, rt, readVars, uiVars, guests, serial>>

\* addDoc threw: the outer catch returns success: false.
addDocFail(p) ==
    /\ uf[p].pc = "addDoc"
    /\ uf' = [NotePeerError(p) EXCEPT ![p].pc = "returned", ![p].success = FALSE,
                                      ![p].storeError = TRUE,
                                      ![p].ops = Append(@, Op("addDoc", FALSE))]
    /\ UNCHANGED <<commentVars, rt, readVars, uiVars, film, guests, serial>>

\* await updateDoc(docRef, {...updatedData, updatedAt}) of createFeatureFilm.
updateUrlsOk(p) ==
    /\ uf[p].pc = "updateUrls"
    /\ film.exists
    /\ film' = WriteUrls(film, uf[p].upload.updatedData)
    /\ uf' = [uf EXCEPT ![p].pc = AfterFiles(uf[p].crew),
                        ![p].ops = Append(@, Op("updateDoc", TRUE))]
    /\ UNCHANGED <<commentVars, rt, readVars, uiVars, guests, serial>>

\* That updateDoc threw: the outer catch returns success: false.
updateUrlsFail(p) ==
    /\ uf[p].pc = "updateUrls"
    /\ uf' = [NotePeerError(p) EXCEPT ![p].pc = "returned", ![p].success = FALSE,
                                      ![p].storeError = TRUE,
                                      ![p].ops = Append(@, Op("updateDoc", FALSE))]
    /\ UNCHANGED <<commentVars, rt, readVars, uiVars, film, guests, serial>>

\* One film is created, with or without files, then updated by one call
\* after the other, and deleted at any moment; a returned result is taken by
\* its caller before anything else happens.
NextCreate ==
    \/ \E p \in Callers : updateFeatureFilmReturn(p)
    \/ ~FilmReturned /\ \E p \in Callers, filmData \in UploadInputs :
                            createFeatureFilmCall(p, filmData)
    \/ ~FilmReturned /\ \E p \in Callers : addDocOk(p)
    \/ ~FilmReturned /\ \E p \in Callers : addDocFail(p)
    \/ ~FilmReturned /\ \E p \in Callers : uploadFiles(p)
    \/ ~FilmReturned /\ \E p \in Callers : updateUrlsOk(p)
    \/ ~FilmReturned /\ \E p \in Callers : updateUrlsFail(p)
    \/ ~FilmReturned /\ (\A q \in Callers : ~InProgress(q))
                     /\ \E p \in Callers, filmData \in UploadInputs :
                            updateFeatureFilmCall(p, filmData)
    \/ ~FilmReturned /\ \E p \in Callers : updateDocOk(p)
    \/ ~FilmReturned /\ \E p \in Callers : updateDocFail(p)
    \/ ~FilmReturned /\ \E p \in Callers : deleteAllGuestsOk(p)
    \/ ~FilmReturned /\ \E p \in Callers : deleteAllGuestsFail(p)
    \/ ~FilmReturned /\ \E p \in Callers : createMultipleGuestsOk(p)
    \/ ~FilmReturned /\ \E p \in Callers : createMultipleGuestsFail(p)
    \/ ~FilmReturned /\ \E p \in Callers : getDocOk(p)
    \/ ~FilmReturned /\ \E p \in Callers : getDocFail(p)
    \/ ~FilmReturned /\ deleteFeatureFilm

SpecCreate == Init /\ [][NextCreate]_vars

\* The first store call of a call is its primary write (addDoc in
\* createFeatureFilm, updateDoc in updateFeatureFilm).
PrimaryWriteFailed(p) == uf[p].ops # <<>> /\ ~uf[p].ops[1].ok

GuestCalls == {"deleteAllGuests", "createMultipleGuests"}

\* The primary write succeeded and no store call but guest calls failed.
OnlyGuestCallsFailed(p) ==
    /\ uf[p].ops # <<>> /\ uf[p].ops[1].ok
    /\ \A i \in 1..Len(uf[p].ops) :
          ~uf[p].ops[i].ok => uf[p].ops[i].op \in GuestCalls

\* C13 (as stated): createFeatureFilm and updateFeatureFilm report
\* success=false when the primary write fails, and success=true when the
\* primary write succeeds and only guest-subcollection calls fail.
C13_SuccessFollowsPrimaryWrite ==
    \A p \in Callers :
        uf[p].pc = "returned" =>
            /\ PrimaryWriteFailed(p) => ~uf[p].success
            /\ OnlyGuestCallsFailed(p) => uf[p].success

\* C13 (amended): success=false when the primary write fails; success=true
\* when the primary write succeeds, only guest-subcollection calls fail and
\* the film document is still there when the call reads it back.
C13_SuccessFollowsPrimaryWriteAndReadBack ==
    \A p \in Callers :
        uf[p].pc = "returned" =>
            /\ PrimaryWriteFailed(p) => ~uf[p].success
            /\ (OnlyGuestCallsFailed(p) /\ film.exists) => uf[p].success

\* A createFeatureFilm call whose createMultipleGuests failed has returned
\* success.
C13_Witness ==
    \E p \in Callers :
        /\ uf[p].pc = "returned" /\ uf[p].op = "create"
        /\ OnlyGuestCallsFailed(p)
        /\ Op("createMultipleGuests", FALSE) = uf[p].ops[Len(uf[p].ops) - 1]
        /\ uf[p].success

\* The File objects attached to a call.
Attached(filmData) ==
    ({filmData.posterFile, filmData.trailerFile} \ {NoFile})
        \cup {filmData.galleryFiles[i] : i \in 1..Len(filmData.galleryFiles)}

\* The url of the file is on the film document.
UrlWritten(file) ==
    \/ film.posterUrl = Url(file)
    \/ film.trailerUrl = Url(file)
    \/ \E i \in 1..Len(film.galleryUrls) : film.galleryUrls[i] = Url(file)

\* A call has returned, one of its uploads failed, its store calls all
\* succeeded and the film is there.
OneUploadFailed(p) ==
    /\ uf[p].pc = "returned"
    /\ Cardinality(uf[p].upload.failed) = 1
    /\ ~uf[p].storeError
    /\ film.exists

\* C14: when the upload of one attached file fails, the failure is in the
\* error list, every other attached file has had its upload attempted and
\* its url written, and the call still reports success.
C14_OneFailedUploadIsIsolated ==
    \A p \in Callers :
        OneUploadFailed(p)
            => /\ Len(uf[p].upload.errors) = 1
               /\ uf[p].upload.attempted = Attached(uf[p].filmData)
               /\ \A file \in Attached(uf[p].filmData) \ uf[p].upload.failed :
                     UrlWritten(file)
               /\ uf[p].success

\* C15: deleteComment called twice on a comment leaves isDeleted == true (the
\* second call changes nothing that the first left), and deleteComment
\* changes none of content, scores, type, editHistory and isEdited.
C15_DeleteIsIdempotentAndKeepsFields ==
    \A k \in Existing :
        LET once  == SoftDelete(docs[k])
            twice == SoftDelete(once)
        IN  /\ once.isDeleted /\ twice.isDeleted
            /\ twice = once
            /\ \A d \in {once, twice} :
                  /\ d.content = docs[k].content
                  /\ d.scores = docs[k].scores
                  /\ d.type = docs[k].type
                  /\ d.editHistory = docs[k].editHistory
                  /\ d.isEdited = docs[k].isEdited

\* An edited scoring comment with a history has been deleted, and the state
\* it is in is the one a further deleteComment leaves.
C15_Witness ==
    \E k \in Existing :
        /\ docs[k].isDeleted
        /\ docs[k].isEdited
        /\ docs[k].editHistory # <<>>
        /\ docs[k].scores # NoScores
        /\ SoftDelete(docs[k]) = docs[k]

\* C16: no operation of the comments service removes a comment document or
\* resets isDeleted: a document that exists goes on existing under its id,
\* and once isDeleted is true it stays true through every later add, update
\* and delete.
C16_SoftDeleteIsPermanent ==
    [][\A k \in Keys :
          docs[k].exists =>
              /\ docs'[k].exists
              /\ docs[k].isDeleted => docs'[k].isDeleted]_vars

\* A deleted comment has been rewritten by updateScoringComment after the
\* delete (the call in progress read it deleted, with a shorter history)
\* and is still there, deleted.
C16_Witness ==
    \E k \in Existing, p \in Callers :
        /\ docs[k].isDeleted
        /\ usc[p].pc = "read" /\ usc[p].commentId = k
        /\ usc[p].currentData.isDeleted
        /\ Len(docs[k].editHistory) > Len(usc[p].currentData.editHistory)

\* C17: updateScoringComment on a commentId without a document fails with a
\* not-found error that the caller sees, and writes nothing.
C17_NotFoundIsVisible ==
    \A p \in Callers :
        (usc[p].pc = "threw" /\ usc[p].cause = "Comment not found")
            => usc[p].error = "Comment not found"

\* ---------------------------------------------------------------------------
\* The four functions that add a comment
\* ---------------------------------------------------------------------------

StatusInputs == {"draft", "approved"}

ReasonInputs == {"", "late"}

AddStep ==
    \/ \E k \in Keys, a \in {"A", "B"} : addGeneralComment(k, a, "c1", NoMetadata)
    \/ \E k \in Keys, sc \in ScoreInputs : addScoringComment(k, "A", sc, "")
    \/ \E k \in Keys, old \in StatusInputs, new \in StatusInputs,
          reason \in ReasonInputs :
         old # new /\ addStatusChangeComment(k, "A", old, new, reason)
    \/ \E k \in Keys, flagged \in BOOLEAN, reason \in ReasonInputs :
         addFlagComment(k, "A", flagged, reason)

SpecAdd == Init /\ [][AddStep]_vars

\* The type that goes with each function that adds a comment.
TypeOf(by) ==
    CASE by = "addGeneralComment"      -> "general"
      [] by = "addScoringComment"      -> "scoring"
      [] by = "addStatusChangeComment" -> "status_change"
      [] by = "addFlagComment"         -> "flag"

\* C18: the comment stored by addGeneralComment, addScoringComment,
\* addStatusChangeComment and addFlagComment has the type general, scoring,
\* status_change and flag.
C18_StoredTypeIsThatOfTheFunction ==
    \A k \in Existing : docs[k].type = TypeOf(ghost.by[k])

\* ---------------------------------------------------------------------------
\* getLatestScoreByAdmin
\* ---------------------------------------------------------------------------

\* (mutant) the query without where('isDeleted', '==', false)
MatchesLatestQueryDeletedToo(data, adminId) ==
    data.adminId = adminId /\ data.type = "scoring"

\* where('adminId', '==', adminId), where('type', '==', 'scoring'),
\* where('isDeleted', '==', false)
MatchesLatestQuery(data, adminId) ==
    data.adminId = adminId /\ data.type = "scoring" /\ data.isDeleted = FALSE

\* the ids of the snapshot of that query, orderBy('createdAt', 'desc')
LatestQuery(adminId) ==
    OrderByCreatedAtDesc(
        KeyOrder({k \in Existing : MatchesLatestQuery(docs[k], adminId)}))

Null == [null |-> TRUE]

\* getDocs answered: null for an empty snapshot, else the comment built from
\* snapshot.docs[0]
getLatestScoreByAdminOk(adminId) ==
    /\ latest.pc = "idle"
    /\ LET ids == LatestQuery(adminId)
       IN  latest' = [pc |-> "returned", adminId |-> adminId,
                      result |-> IF ids = <<>> THEN Null
                                 ELSE ToComment(ids[1], docs[ids[1]])]
    /\ UNCHANGED <<commentVars, rt, filmVars, legacy, svc, uiVars>>

\* getDocs threw: the catch throws 'Failed to fetch latest score'
getLatestScoreByAdminFail(adminId) ==
    /\ latest.pc = "idle"
    /\ latest' = [pc |-> "threw", adminId |-> adminId,
                  error |-> "Failed to fetch latest score"]
    /\ UNCHANGED <<commentVars, rt, filmVars, legacy, svc, uiVars>>

\* the caller has the comment, the null or the error
getLatestScoreByAdminReturn ==
    /\ latest.pc # "idle"
    /\ latest' = NoLatest
    /\ UNCHANGED <<commentVars, rt, filmVars, legacy, svc, uiVars>>

\* Comments are added and deleted, the first one is rescored, and the latest
\* score of an admin is asked for; what a call threw or returned is taken
\* by its caller before anything else happens.
LatestBusy == latest.pc # "idle" \/ SomeThrew

LatestStep ==
    \/ getLatestScoreByAdminReturn
    \/ \E p \in Callers : updateScoringCommentCaught(p)
    \/ ~LatestBusy /\ \E a \in {"A", "B"} : getLatestScoreByAdminOk(a)
    \/ ~LatestBusy /\ \E a \in {"A", "B"} : getLatestScoreByAdminFail(a)
    \/ ~LatestBusy /\ \E k \in Keys, a \in {"A", "B"} :
         addScoringComment(k, a, AppScore(8, 7, 9, 6, 5, 35), "")
    \/ ~LatestBusy /\ \E k \in Keys : addGeneralComment(k, "A", "c1", NoMetadata)
    \/ ~LatestBusy /\
         updateScoringCommentRead(1, 1, AppScore(1, 0, 2, 0, 3, 9), "c1", "A")
    \/ ~LatestBusy /\ updateScoringCommentWrite(1)
    \/ ~LatestBusy /\ updateScoringCommentFail(1)
    \/ ~LatestBusy /\ \E k \in Keys : deleteComment(k)

SpecLatest == Init /\ [][LatestStep]_vars

\* The non-deleted scoring comments of an admin.
LiveScoresOf(adminId) ==
    {k \in Existing : /\ docs[k].type = "scoring"
                      /\ docs[k].adminId = adminId
                      /\ ~docs[k].isDeleted}

\* C19: getLatestScoreByAdmin(S, A) returns the non-deleted scoring comment
\* of admin A with the greatest createdAt, and null exactly when A has no
\* such comment (when it throws, it is the store that failed).
C19_LatestScoreIsNewestLiveScore ==
    latest.pc = "returned" =>
        LET mine == LiveScoresOf(latest.adminId)
        IN  /\ latest.result = Null <=> mine = {}
            /\ mine # {} =>
                  /\ latest.result.id \in mine
                  /\ \A k \in mine :
                        docs[k].createdAt <= docs[latest.result.id].createdAt
                  /\ latest.result.scores =
                        mapDatabaseScoresToApp(docs[latest.result.id].scores)

\* The admin has two live scoring comments: the call has returned one of
\* them, a comment that has been edited.
C19_Witness ==
    /\ latest.pc = "returned"
    /\ latest.result # Null
    /\ \E k \in LiveScoresOf(latest.adminId) : k # latest.result.id
    /\ latest.result.isEdited

\* ---------------------------------------------------------------------------
\* convertLegacyToEnhanced (featureFilmService.ts)
\* ---------------------------------------------------------------------------

\* Values of the fields of a legacy record: absent, null, a string (text
\* fields), a string as a sequence of characters (mainActors, which is
\* split), an array.
JsUndefined == [t |-> "undefined"]
JsNull == [t |-> "null"]
Str(s) == [t |-> "string", v |-> s]
Chars(cs) == [t |-> "chars", v |-> cs]
Arr(a) == [t |-> "array", v |-> a]

Truthy(x) ==
    CASE x.t = "string" -> x.v # ""
      [] x.t = "chars"  -> x.v # <<>>
      [] x.t = "array"  -> TRUE
      [] OTHER          -> FALSE

\* (mutant) x ?? d
OrElseNullish(x, d) == IF x.t \in {"undefined", "null"} THEN d ELSE x

\* x || d
OrElse(x, d) == IF Truthy(x) THEN x ELSE d

\* legacyData.mainActors ? legacyData.mainActors.split(',').map(...) : []
\* (split is a method of strings: on another truthy value the call throws)
Cast(mainActors) ==
    IF ~Truthy(mainActors) THEN [ok |-> TRUE, v |-> <<>>]
    ELSE IF mainActors.t # "chars" THEN [ok |-> FALSE]
    ELSE LET actors == SplitComma(mainActors.v)
         IN  [ok |-> TRUE,
              v  |-> [i \in 1..Len(actors) |->
                        [name |-> TrimChars(actors[i]), role |-> "Actor",
                         character |-> ""]]]

\* legacyData.galleryUrls && legacyData.galleryUrls.length > 0 ? ....map(...) : undefined
Stills(galleryUrls) ==
    IF Truthy(galleryUrls) /\ Len(galleryUrls.v) > 0
    THEN Arr([i \in 1..Len(galleryUrls.v) |->
                [url |-> galleryUrls.v[i], name |-> "still_" \o ToString(i)]])
    ELSE JsUndefined

Crew(legacyData) ==
    <<[name |-> OrElse(legacyData.director, Str("Unknown")),
       role |-> "Director", department |-> "Direction"]>>
    \o (IF Truthy(legacyData.producer)
        THEN <<[name |-> legacyData.producer,
                role |-> "Producer", department |-> "Production"]>>
        ELSE <<>>)

\* Array.isArray(x)
IsArray(x) == x.t = "array"

\* a[0]: the first element, undefined on an empty array
First(a) == IF Len(a.v) > 0 THEN a.v[1] ELSE JsUndefined

\* Array.isArray(languages) ? languages : (language ? [language] : ['Unknown'])
Language(legacyData) ==
    IF IsArray(legacyData.languages) THEN legacyData.languages
    ELSE IF Truthy(legacyData.language) THEN Arr(<<legacyData.language>>)
    ELSE Arr(<<Str("Unknown")>>)

\* Array.isArray(genres) ? genres : (genre ? [genre] : [])
Genres(legacyData) ==
    IF IsArray(legacyData.genres) THEN legacyData.genres
    ELSE IF Truthy(legacyData.genre) THEN Arr(<<legacyData.genre>>)
    ELSE Arr(<<>>)

\* Array.isArray(countries) ? countries[0] : (country || 'Unknown')
Country(legacyData) ==
    IF IsArray(legacyData.countries) THEN First(legacyData.countries)
    ELSE OrElse(legacyData.country, Str("Unknown"))

ConversionThrew == [threw |-> TRUE]

\* The fields of the result that depend on the legacy fields drawn here;
\* the others are copied or defaulted in the same two ways (x || default,
\* x ? f(x) : default).  "Accepted" stands for the status text
\* that the code compares with.
convertLegacyToEnhanced(legacyData) ==
    IF ~Cast(legacyData.mainActors).ok THEN ConversionThrew
    ELSE [threw    |-> FALSE,
          title    |-> OrElse(legacyData.titleEn, OrElse(legacyData.title, Str("Untitled"))),
          director |-> OrElse(legacyData.director, Str("Unknown")),
          language |-> Language(legacyData),
          genres   |-> Genres(legacyData),
          country  |-> Country(legacyData),
          files    |-> [stills |-> Stills(legacyData.galleryUrls)],
          cast     |-> Cast(legacyData.mainActors).v,
          crew     |-> Crew(legacyData),
          status   |-> IF legacyData.status = Str("Accepted") THEN "published"
                       ELSE "draft"]

\* A stored document without any of the fields the conversion reads.
NoFields ==
    [director |-> JsUndefined, producer |-> JsUndefined,
     mainActors |-> JsUndefined, titleEn |-> JsUndefined,
     title |-> JsUndefined, galleryUrls |-> JsUndefined,
     status |-> JsUndefined,
     genres |-> JsUndefined, genre |-> JsUndefined,
     countries |-> JsUndefined, country |-> JsUndefined,
     languages |-> JsUndefined, language |-> JsUndefined]

\* Every combination of absent, null, empty and filled people, title,
\* gallery and status fields.
PeopleRecords ==
    {[NoFields EXCEPT !.director = d, !.producer = p, !.mainActors = a,
                      !.titleEn = te, !.title = t, !.galleryUrls = g,
                      !.status = s] :
        d \in {JsUndefined, JsNull, Str(""), Str("Ann")},
        p \in {JsUndefined, Str(""), Str("Bob")},
        a \in {JsUndefined, JsNull, Chars(<<>>), Chars(<<"a", ",", " ", "b">>)},
        te \in {JsUndefined, Str("En")},
        t \in {JsUndefined, Str("T")},
        g \in {JsUndefined, Arr(<<>>), Arr(<<"u1">>)},
        s \in {JsUndefined, Str("Accepted")}}

\* Every combination of absent, empty and filled array-style and singular
\* genre, country and language fields.
CoalescedRecords ==
    {[NoFields EXCEPT !.genres = gs, !.genre = g, !.countries = cs,
                      !.country = c, !.languages = ls, !.language = l] :
        gs \in {JsUndefined, Arr(<<>>), Arr(<<Str("Drama")>>)},
        g \in {JsUndefined, Str(""), Str("Horror")},
        cs \in {JsUndefined, Arr(<<>>), Arr(<<Str("Thailand"), Str("Laos")>>)},
        c \in {JsUndefined, Str(""), Str("France")},
        ls \in {JsUndefined, Arr(<<>>), Arr(<<Str("Thai")>>)},
        l \in {JsUndefined, Str("English")}}

LegacyRecords == PeopleRecords \cup CoalescedRecords

InitLegacy ==
    /\ InitComments
    /\ rt = NoRoundTrip
    /\ film = NoFilm /\ guests = {} /\ serial = 0
    /\ uf = [p \in Callers |-> NoUpdate]
    /\ svc = NoService
    /\ NoUi
    /\ legacy \in {[stage |-> "legacy", data |-> L] : L \in LegacyRecords}

convertStep ==
    /\ legacy.stage = "legacy"
    /\ legacy' = [stage |-> "enhanced", data |-> legacy.data,
                  result |-> convertLegacyToEnhanced(legacy.data)]
    /\ UNCHANGED <<commentVars, rt, filmVars, latest, svc, uiVars>>

SpecLegacy == InitLegacy /\ [][convertStep]_vars

\* C20: for every legacy record, whatever fields are present, absent or
\* empty, convertLegacyToEnhanced does not throw and yields a non-empty crew
\* whose first entry is the Director, named 'Unknown' when the director
\* field is missing or empty (and by the field otherwise).
C20_ConversionIsTotalWithDirector ==
    legacy.stage = "enhanced" =>
        /\ legacy.result # ConversionThrew
        /\ Len(legacy.result.crew) >= 1
        /\ legacy.result.crew[1].role = "Director"
        /\ legacy.result.crew[1].name =
              IF legacy.data.director \in {JsUndefined, JsNull, Str("")}
              THEN Str("Unknown") ELSE legacy.data.director

\* A record with an empty director and nothing else has been converted.
C20_Witness ==
    /\ legacy.stage = "enhanced"
    /\ legacy.data.director = Str("")
    /\ legacy.data.producer = JsUndefined
    /\ legacy.data.mainActors = JsUndefined
    /\ legacy.result.crew = <<[name |-> Str("Unknown"), role |-> "Director",
                               department |-> "Direction"]>>

\* C21: the converted country is always a defined string: countries[0]
\* when the countries array supplies a value, otherwise the country field,
\* otherwise 'Unknown' (also for a record whose countries array is empty);
\* genres and language are the array-style field when it holds a value,
\* and without an array-style field the singular field or the default
\* [] / ['Unknown'].
C21_CoalescedCountryIsDefined ==
    legacy.stage = "enhanced" /\ legacy.result # ConversionThrew =>
        LET d == legacy.data
            Supplies(a) == IsArray(a) /\ Len(a.v) > 0
        IN  /\ legacy.result.country.t = "string"
            /\ legacy.result.country =
                  IF Supplies(d.countries) THEN d.countries.v[1]
                  ELSE IF Truthy(d.country) THEN d.country
                  ELSE Str("Unknown")
            /\ Supplies(d.genres) => legacy.result.genres = d.genres
            /\ ~IsArray(d.genres) =>
                  legacy.result.genres =
                     IF Truthy(d.genre) THEN Arr(<<d.genre>>) ELSE Arr(<<>>)
            /\ Supplies(d.languages) => legacy.result.language = d.languages
            /\ ~IsArray(d.languages) =>
                  legacy.result.language =
                     IF Truthy(d.language) THEN Arr(<<d.language>>)
                     ELSE Arr(<<Str("Unknown")>>)

\* ---------------------------------------------------------------------------
\* The field mapping from the store's side: persisted records are read
\* (getComments maps data.scores of each document) and written back
\* ---------------------------------------------------------------------------
\* the persisted score records, with a legacy overall field or without
\* (Undefined: the field is absent)
DbScoreSpace ==
    [technical : ScoreValues, story : ScoreValues, creativity : ScoreValues,
     chiangmai : ScoreValues, humanEffort : ScoreValues, overall : ScoreValues,
     totalScore : ScoreValues]

\* the records that carry other humanEffort and overall fields than p
\* (p itself among them)
Siblings(p) ==
    {[p EXCEPT !.humanEffort = h, !.overall = o] :
        h \in ScoreValues, o \in ScoreValues}

\* two stored records, not yet read
InitStored ==
    /\ InitComments
    /\ NoFilms
    /\ \E p \in DbScoreSpace : \E q \in Siblings(p) :
         rt = [stage |-> "stored", p |-> p, q |-> q,
               ap |-> NoScores, aq |-> NoScores, back |-> NoScores]

\* getComments maps the scores of every document of the snapshot
readStored ==
    /\ rt.stage = "stored"
    /\ rt' = [rt EXCEPT !.stage = "mapped",
                        !.ap = mapDatabaseScoresToApp(rt.p),
                        !.aq = mapDatabaseScoresToApp(rt.q)]
    /\ UNCHANGED <<commentVars, filmVars, readVars, uiVars>>

\* updateScoringComment maps the record it is handed for the store
writeBack ==
    /\ rt.stage = "mapped"
    /\ rt' = [rt EXCEPT !.stage = "written",
                        !.back = mapAppScoresToDatabase(rt.ap)]
    /\ UNCHANGED <<commentVars, filmVars, readVars, uiVars>>

NextStored ==
    \/ readStored
    \/ writeBack

SpecStored == InitStored /\ [][NextStored]_vars

\* a persisted record as mapAppScoresToDatabase writes it: six numbers, no
\* overall field
Written(p) ==
    /\ p.technical # Undefined /\ p.story # Undefined
    /\ p.creativity # Undefined /\ p.chiangmai # Undefined
    /\ p.humanEffort # Undefined /\ p.totalScore # Undefined
    /\ p.overall = Undefined

\* C22 (as stated): for every persisted record p, with a legacy overall
\* field or without, mapAppScoresToDatabase(mapDatabaseScoresToApp(p)) is p,
\* and two distinct persisted records never map to the same application
\* record.
C22_MappingIsBijection ==
    rt.stage = "written" =>
        /\ rt.back = rt.p
        /\ rt.p # rt.q => rt.ap # rt.aq

\* C22 (amended): on the persisted records that mapAppScoresToDatabase
\* writes (six numbers, no overall field) the round trip is the identity and
\* distinct records map to distinct application records; a record with a
\* legacy overall and no (or a zero) humanEffort is read with that overall
\* and written back with it as humanEffort.
C22_MappingIsBijectionOnWrittenRecords ==
    rt.stage = "written" =>
        /\ Written(rt.p) => rt.back = rt.p
        /\ Written(rt.p) /\ Written(rt.q) /\ rt.p # rt.q => rt.ap # rt.aq
        /\ OrZero(rt.p.humanEffort) = 0 =>
              /\ rt.ap.overall = OrZero(rt.p.overall)
              /\ rt.back.humanEffort = OrZero(rt.p.overall)
              /\ rt.back.overall = Undefined

\* Two distinct written-form records, the first with a non-zero humanEffort,
\* have been read and the first written back.
C22_Witness ==
    /\ rt.stage = "written"
    /\ Written(rt.p) /\ Written(rt.q) /\ rt.p # rt.q
    /\ rt.p.humanEffort > 0
    /\ rt.ap.overall = rt.p.humanEffort
    /\ rt.back = rt.p

\* ---------------------------------------------------------------------------
\* VideoScoringPanel: the scores state, its effects and its handlers
\* ---------------------------------------------------------------------------
\* everything but the components at rest
ServicesAtRest ==
    /\ InitComments
    /\ rt = NoRoundTrip
    /\ film = NoFilm
    /\ guests = {}
    /\ uf = [p \in Callers |-> NoUpdate]
    /\ serial = 0
    /\ legacy = NoConversion
    /\ svc = NoService

\* useState: the scores state of a new panel
EmptyScores ==
    [technical |-> 0, story |-> 0, creativity |-> 0, chiangmai |-> 0,
     humanEffort |-> 0, overall |-> 0, comments |-> ""]

\* the currentScores prop is undefined
NoCurrentScores == [absent |-> TRUE]

\* the currentScores prop
CurrentScores(t, s, c, m, o, tot, comments) ==
    [technical |-> t, story |-> s, creativity |-> c, chiangmai |-> m,
     overall |-> o, totalScore |-> tot, comments |-> comments]

\* values of the currentScores prop: none, a record whose total is not the
\* sum of its criteria, a record with missing criteria
CurrentScoresInputs ==
    { NoCurrentScores,
      CurrentScores(1, 0, 1, 0, 1, 9, "c1"),
      CurrentScores(Undefined, 7, 0, Undefined, Undefined, 1, "") }

\* the stars that the user clicks
StarInputs ==
    { <<"technical", 8>>, <<"story", 7>>, <<"creativity", 9>>,
      <<"chiangmai", 6>>, <<"humanEffort", 5>> }

\* the scores that the effect on currentScores sets
LoadedScores(currentScores) ==
    IF currentScores = NoCurrentScores THEN EmptyScores
    ELSE [technical   |-> OrZero(currentScores.technical),
          story       |-> OrZero(currentScores.story),
          creativity  |-> OrZero(currentScores.creativity),
          chiangmai   |-> OrZero(currentScores.chiangmai),
          humanEffort |-> OrZero(currentScores.overall),
          overall     |-> OrZero(currentScores.overall),
          comments    |-> currentScores.comments]

\* the change detection effect (initialScores is not empty once mounted)
DetectChanges(scores, initialScores, currentScores) ==
    IF currentScores = NoCurrentScores
    THEN \/ OrZero(scores.technical) > 0
         \/ OrZero(scores.story) > 0
         \/ OrZero(scores.creativity) > 0
         \/ OrZero(scores.chiangmai) > 0
         \/ OrZero(scores.humanEffort) > 0
         \/ Trim(scores.comments) # ""
    ELSE \/ scores.technical # OrZero(initialScores.technical)
         \/ scores.story # OrZero(initialScores.story)
         \/ scores.creativity # OrZero(initialScores.creativity)
         \/ scores.chiangmai # OrZero(initialScores.chiangmai)
         \/ scores.humanEffort # OrZero(initialScores.humanEffort)
         \/ scores.comments # initialScores.comments

\* (mutant) the total leaves out the human effort criterion
PanelTotalWithoutEffort(scores) ==
    OrZero(scores.technical) + OrZero(scores.story) + OrZero(scores.creativity)
      + OrZero(scores.chiangmai)

\* the total that the effect and handleSaveScores calculate
PanelTotal(scores) ==
    OrZero(scores.technical) + OrZero(scores.story) + OrZero(scores.creativity)
      + OrZero(scores.chiangmai) + OrZero(scores.humanEffort)

\* the record that the effect hands to onScoreChange
mappedScores(scores) ==
    [via |-> "onScoreChange",
     technical |-> OrZero(scores.technical), story |-> OrZero(scores.story),
     creativity |-> OrZero(scores.creativity),
     chiangmai |-> OrZero(scores.chiangmai),
     overall |-> OrZero(scores.humanEffort),
     totalScore |-> PanelTotal(scores), comments |-> scores.comments]

\* the record that handleSaveScores hands to onSaveScores
scoringData(scores) ==
    [via |-> "onSaveScores",
     technical |-> OrZero(scores.technical), story |-> OrZero(scores.story),
     creativity |-> OrZero(scores.creativity),
     chiangmai |-> OrZero(scores.chiangmai),
     overall |-> OrZero(scores.humanEffort),
     totalScore |-> PanelTotal(scores), comments |-> scores.comments]

\* A panel right after construction, no effect has run yet.  handed: the
\* records that the last step handed to the parent, in order; outcome: how
\* the onSaveScores call of the last step ended; persisted: what
\* addScoringComment stored for the last record that was saved.
InitPanel ==
    /\ ServicesAtRest
    /\ form = NoForm
    /\ acts = NoActivities
    /\ \E currentScores \in CurrentScoresInputs :
         panel = [stage |-> "constructed", scores |-> EmptyScores,
                  initialScores |-> NoScores, hasChanges |-> FALSE,
                  currentScores |-> currentScores, handed |-> <<>>,
                  outcome |-> "none", persisted |-> NoScores]

\* the state after setScores(scores), with the effects that follow it
WithScores(scores) ==
    [panel EXCEPT !.scores = scores,
                  !.hasChanges = DetectChanges(scores, panel.initialScores,
                                               panel.currentScores),
                  !.handed = <<mappedScores(scores)>>,
                  !.outcome = "none"]

\* The effects of the first render: onScoreChange is told the scores of
\* useState, the scores of currentScores are loaded, and the effects of the
\* render that follows run on them.
mount ==
    /\ panel.stage = "constructed"
    /\ LET loaded == LoadedScores(panel.currentScores)
       IN  panel' = [panel EXCEPT
                        !.stage = "mounted",
                        !.scores = loaded,
                        !.initialScores = loaded,
                        !.hasChanges = DetectChanges(loaded, loaded,
                                                     panel.currentScores),
                        !.handed = <<mappedScores(panel.scores),
                                     mappedScores(loaded)>>]
    /\ UNCHANGED <<commentVars, rt, filmVars, readVars, form, acts>>

\* the parent passes a new currentScores prop
reloadCurrentScores(currentScores) ==
    /\ panel.stage = "mounted"
    /\ LET loaded == LoadedScores(currentScores)
       IN  panel' = [panel EXCEPT
                        !.currentScores = currentScores,
                        !.scores = loaded,
                        !.initialScores = loaded,
                        !.hasChanges = DetectChanges(loaded, loaded, currentScores),
                        !.handed = <<mappedScores(loaded)>>,
                        !.outcome = "none"]
    /\ UNCHANGED <<commentVars, rt, filmVars, readVars, form, acts>>

\* a click on a star
handleScoreChange(criterion, value) ==
    /\ panel.stage = "mounted"
    /\ LET updated == [panel.scores EXCEPT ![criterion] = value]
           synced  == IF criterion = "humanEffort"
                      THEN [updated EXCEPT !.overall = value] ELSE updated
       IN  panel' = WithScores(synced)
    /\ UNCHANGED <<commentVars, rt, filmVars, readVars, form, acts>>

handleCommentsChange(comments) ==
    /\ panel.stage = "mounted"
    /\ panel' = WithScores([panel.scores EXCEPT !.comments = comments])
    /\ UNCHANGED <<commentVars, rt, filmVars, readVars, form, acts>>

\* the reset button is disabled without changes
handleResetScores ==
    /\ panel.stage = "mounted"
    /\ panel.hasChanges
    /\ panel' = WithScores(EmptyScores)
    /\ UNCHANGED <<commentVars, rt, filmVars, readVars, form, acts>>

\* The onSaveScores prop of the parent component: what the scores of the
\* comment are once addScoringComment has stored the record it is handed.
onSaveScores(data) == mapAppScoresToDatabase(data)

\* A click on the save button.  onSaveScores stores the record with
\* addScoringComment; once it has resolved the saved scores become the
\* initial ones (what follows the await changes initialScores and hasChanges
\* only and is taken together with the call).
handleSaveScores(user, isSubmitting, resolves) ==
    /\ panel.stage = "mounted"
    /\ IF ~user \/ ~panel.hasChanges \/ isSubmitting
       THEN panel' = [panel EXCEPT !.handed = <<>>, !.outcome = "none"]
       ELSE LET data  == scoringData(panel.scores)
                saved == [panel.scores EXCEPT
                             !.overall = OrZero(panel.scores.humanEffort)]
            IN  IF resolves
                THEN panel' = [panel EXCEPT
                                 !.handed = <<data>>,
                                 !.outcome = "resolved",
                                 !.persisted = onSaveScores(data),
                                 !.initialScores = saved,
                                 !.hasChanges =
                                     DetectChanges(panel.scores, saved,
                                                   panel.currentScores)]
                ELSE panel' = [panel EXCEPT !.handed = <<data>>,
                                            !.outcome = "rejected"]
    /\ UNCHANGED <<commentVars, rt, filmVars, readVars, form, acts>>

NextPanel ==
    \/ mount
    \/ \E currentScores \in CurrentScoresInputs : reloadCurrentScores(currentScores)
    \/ \E click \in StarInputs : handleScoreChange(click[1], click[2])
    \/ \E comments \in {"", "c1"} : handleCommentsChange(comments)
    \/ handleResetScores
    \/ \E user \in BOOLEAN, isSubmitting \in BOOLEAN, resolves \in BOOLEAN :
         handleSaveScores(user, isSubmitting, resolves)

SpecPanel == InitPanel /\ [][NextPanel]_vars

\* C23: every record that the panel hands to onScoreChange or onSaveScores,
\* after any clicks, comment edits, resets and reloads, has totalScore ==
\* technical + story + creativity + chiangmai + overall; a saved record of
\* {technical 8, story 7, creativity 9, chiangmai 6, overall 5} is persisted
\* by addScoringComment with humanEffort 5 and totalScore 35.
C23_HandedTotalIsSumOfCriteria ==
    panel.stage = "mounted" =>
        /\ \A i \in 1..Len(panel.handed) :
              LET r == panel.handed[i]
              IN  r.totalScore = r.technical + r.story + r.creativity
                                   + r.chiangmai + r.overall
        /\ \A i \in 1..Len(panel.handed) :
              LET r == panel.handed[i]
              IN  (/\ r.via = "onSaveScores"
                   /\ panel.outcome = "resolved"
                   /\ r.technical = 8 /\ r.story = 7 /\ r.creativity = 9
                   /\ r.chiangmai = 6 /\ r.overall = 5)
                  => /\ panel.persisted.humanEffort = 5
                     /\ panel.persisted.totalScore = 35

\* The panel was loaded with a record whose total is not the sum of its
\* criteria, the user clicked the five stars of the example and saved, and
\* the record was handed to onSaveScores and persisted.
C23_Witness ==
    /\ panel.stage = "mounted"
    /\ panel.currentScores = CurrentScores(1, 0, 1, 0, 1, 9, "c1")
    /\ Len(panel.handed) = 1
    /\ panel.handed[1].via = "onSaveScores"
    /\ panel.outcome = "resolved"
    /\ panel.handed[1].technical = 8 /\ panel.handed[1].story = 7
    /\ panel.handed[1].creativity = 9 /\ panel.handed[1].chiangmai = 6
    /\ panel.handed[1].overall = 5
    /\ panel.persisted = [technical |-> 8, story |-> 7, creativity |-> 9,
                          chiangmai |-> 6, humanEffort |-> 5,
                          overall |-> Undefined, totalScore |-> 35]

\* ---------------------------------------------------------------------------
\* useActivityForm: the form data, its validation and its submission
\* ---------------------------------------------------------------------------
MaxSubmits == 2      \* submissions that may wait for the service at a time

\* a text of n characters
Text(n) == [i \in 1..n |-> "x"]

\* '' as a date or time input; other dates are days, other times minutes
NoDate == 0
\* new Date() at midnight: the day of the validation
Today == 2

\* /^[^\s@]+@[^\s@]+\.[^\s@]+$/.test(s)
IsEmail(s) ==
    /\ \A k \in 1..Len(s) : s[k] # " "
    /\ \E i \in 2..Len(s) :
          /\ s[i] = "@"
          /\ \A k \in 1..Len(s) : s[k] = "@" => k = i
          /\ \E j \in (i + 2)..(Len(s) - 1) : s[j] = "."

Digits == {"0", "1", "2", "3", "4", "5", "6", "7", "8", "9"}
IsPhoneFiller(c) == c \in {" ", "-", "(", ")"}
IsPhoneChar(c) == ~IsPhoneFiller(c)

\* /^[\+]?[1-9][\d]{0,15}$/.test(s.replace(/[\s\-\(\)]/g, ''))
IsPhone(s) ==
    LET t == SelectSeq(s, IsPhoneChar)
        d == IF t # <<>> /\ Head(t) = "+" THEN Tail(t) ELSE t
    IN  /\ Len(d) \in 1..16
        /\ d[1] \in Digits \ {"0"}
        /\ \A k \in 2..Len(d) : d[k] \in Digits

\* new URL(s) does not throw: s starts with a scheme (letters, then ':')
IsUrl(s) ==
    \E i \in 2..Len(s) :
        /\ s[i] = ":"
        /\ \A k \in 1..(i - 1) : s[k] \in {"h", "t", "p", "s"}

NoImage == [absent |-> TRUE]
MaxImageSize == 5 * 1024 * 1024

\* getInitialFormData()
getInitialFormData ==
    [image |-> NoImage, name |-> <<>>, shortDescription |-> <<>>,
     maxParticipants |-> 0, eventDate |-> NoDate, startTime |-> NoDate,
     endTime |-> NoDate, registrationDeadline |-> NoDate,
     venueName |-> <<>>, venueLocation |-> <<>>, description |-> <<>>,
     organizers |-> <<>>, tags |-> <<>>, contactEmail |-> <<>>,
     contactName |-> <<>>, contactPhone |-> <<>>]

\* form data that passes the validation
ValidFormData ==
    [image |-> [size |-> 1024, type |-> "image/png"],
     name |-> <<" ", "a", "b", "c">>, shortDescription |-> Text(10),
     maxParticipants |-> 10, eventDate |-> 5, startTime |-> 1,
     endTime |-> 2, registrationDeadline |-> 4,
     venueName |-> Text(3), venueLocation |-> <<"h", "t", "t", "p", ":", "x">>,
     description |-> Text(50), organizers |-> <<"o1">>, tags |-> <<"t1">>,
     contactEmail |-> <<"a", "@", "b", ".", "c">>,
     contactName |-> Text(2), contactPhone |-> <<"+", "6", "6", " ", "1">>]

\* One error of the validation: errors[field] = message.
FormError(field, message) == <<[field |-> field, message |-> message]>>

FormErrorIf(condition, field, message) ==
    IF condition THEN FormError(field, message) ELSE <<>>

\* The errors of validateForm, in the order in which their keys are
\* inserted (the order of Object.values).
FormErrors(formData) ==
    LET name      == TrimChars(formData.name)
        short     == TrimChars(formData.shortDescription)
        full      == TrimChars(formData.description)
        venue     == TrimChars(formData.venueName)
        email     == TrimChars(formData.contactEmail)
        contact   == TrimChars(formData.contactName)
        phone     == TrimChars(formData.contactPhone)
        location  == TrimChars(formData.venueLocation)
    IN  (IF name = <<>> THEN FormError("name", "Activity name is required")
         ELSE IF Len(name) < 3
              THEN FormError("name", "Activity name must be at least 3 characters")
         ELSE FormErrorIf(Len(name) > 100, "name",
                          "Activity name must be less than 100 characters"))
     \o (IF short = <<>>
         THEN FormError("shortDescription", "Short description is required")
         ELSE IF Len(short) < 10
              THEN FormError("shortDescription",
                             "Short description must be at least 10 characters")
         ELSE FormErrorIf(Len(short) > 200, "shortDescription",
                          "Short description must be less than 200 characters"))
     \o (IF full = <<>>
         THEN FormError("description", "Full description is required")
         ELSE FormErrorIf(Len(full) < 50, "description",
                          "Full description must be at least 50 characters"))
     \o (IF formData.eventDate = NoDate
         THEN FormError("eventDate", "Event date is required")
         ELSE FormErrorIf(formData.eventDate < Today, "eventDate",
                          "Event date cannot be in the past"))
     \o FormErrorIf(formData.startTime = NoDate, "startTime",
                    "Start time is required")
     \o (IF formData.endTime = NoDate
         THEN FormError("endTime", "End time is required")
         ELSE FormErrorIf(/\ formData.startTime # NoDate
                          /\ formData.endTime <= formData.startTime,
                          "endTime", "End time must be after start time"))
     \o (IF formData.registrationDeadline = NoDate
         THEN FormError("registrationDeadline", "Registration deadline is required")
         ELSE FormErrorIf(/\ formData.eventDate # NoDate
                          /\ formData.registrationDeadline >= formData.eventDate,
                          "registrationDeadline",
                          "Registration deadline must be before event date"))
     \o (IF venue = <<>> THEN FormError("venueName", "Venue name is required")
         ELSE FormErrorIf(Len(venue) < 3, "venueName",
                          "Venue name must be at least 3 characters"))
     \o (IF formData.maxParticipants < 0
         THEN FormError("maxParticipants", "Maximum participants cannot be negative")
         ELSE FormErrorIf(formData.maxParticipants > 10000, "maxParticipants",
                          "Maximum participants cannot exceed 10,000"))
     \o FormErrorIf(Len(formData.organizers) = 0, "organizers",
                    "At least one organizer is required")
     \o (IF Len(formData.tags) = 0
         THEN FormError("tags", "At least one tag is required")
         ELSE FormErrorIf(Len(formData.tags) > 10, "tags", "Maximum 10 tags allowed"))
     \o (IF email = <<>>
         THEN FormError("contactEmail", "Contact email is required")
         ELSE FormErrorIf(~IsEmail(email), "contactEmail",
                          "Please enter a valid email address"))
     \o (IF contact = <<>>
         THEN FormError("contactName", "Contact name is required")
         ELSE FormErrorIf(Len(contact) < 2, "contactName",
                          "Contact name must be at least 2 characters"))
     \o FormErrorIf(phone # <<>> /\ ~IsPhone(phone), "contactPhone",
                    "Please enter a valid phone number")
     \o FormErrorIf(location # <<>> /\ ~IsUrl(location), "venueLocation",
                    "Please enter a valid URL for venue location")
     \o (IF formData.image = NoImage THEN <<>>
         ELSE IF formData.image.type \notin {"image/jpeg", "image/png", "image/webp"}
              THEN FormError("image", "Only JPEG, PNG, and WebP images are allowed")
         ELSE FormErrorIf(formData.image.size > MaxImageSize, "image",
                          "Image file size must be less than 5MB"))

\* (mutant) the form counts as valid whatever the errors
IsValidAlways(errors) == TRUE

\* Object.keys(errors).length === 0
IsValid(errors) == Len(errors) = 0

validateForm(formData) ==
    [isValid |-> IsValid(FormErrors(formData)), errors |-> FormErrors(formData)]

\* error: null
NoError == "null"
\* what the last step did not do
NoSubmit == [kind |-> "none"]

\* the fields and values that the user enters
FieldInputs ==
    { <<"name", <<"a", "b", " ">> >>, <<"name", <<" ">> >>,
      <<"eventDate", NoDate>>, <<"eventDate", 1>>,
      <<"endTime", 1>>,
      <<"organizers", <<>> >>,
      <<"contactEmail", <<"a", "@", "b">> >>,
      <<"contactPhone", <<"0", "1">> >>,
      <<"image", [size |-> MaxImageSize + 1, type |-> "image/gif"]>> }

\* The hook after its first render.  user: the authenticated user or none;
\* pending: the service calls that have not completed; last: what the
\* submitForm call of the last step did.
InitForm ==
    /\ ServicesAtRest
    /\ panel = NoPanel
    /\ acts = NoActivities
    /\ \E activityId \in {"none", "activity1"},
          initialData \in {getInitialFormData, ValidFormData} :
         form = [stage |-> "ready", activityId |-> activityId,
                 initialData |-> initialData, formData |-> initialData,
                 user |-> FALSE, isSubmitting |-> FALSE, error |-> NoError,
                 pending |-> 0, last |-> NoSubmit]

\* the authentication state changes
authChange(user) ==
    /\ form.stage = "ready"
    /\ form' = [form EXCEPT !.user = user, !.last = NoSubmit]
    /\ UNCHANGED <<commentVars, rt, filmVars, readVars, panel, acts>>

updateField(field, value) ==
    /\ form.stage = "ready"
    /\ form' = [form EXCEPT !.formData = [@ EXCEPT ![field] = value],
                            !.error = NoError, !.last = NoSubmit]
    /\ UNCHANGED <<commentVars, rt, filmVars, readVars, panel, acts>>

resetForm ==
    /\ form.stage = "ready"
    /\ form' = [form EXCEPT !.formData = form.initialData,
                            !.error = NoError, !.last = NoSubmit]
    /\ UNCHANGED <<commentVars, rt, filmVars, readVars, panel, acts>>

setFormData(data) ==
    /\ form.stage = "ready"
    /\ form' = [form EXCEPT !.formData = data,
                            !.error = NoError, !.last = NoSubmit]
    /\ UNCHANGED <<commentVars, rt, filmVars, readVars, panel, acts>>

\* submitForm up to its return or to the call of the service
submitForm ==
    /\ form.stage = "ready"
    /\ form.pending < MaxSubmits
    /\ LET validation == validateForm(form.formData)
           Refused(message) ==
               [form EXCEPT !.error = message,
                            !.last = [kind |-> "refused", onError |-> message,
                                      returned |-> "null", service |-> "none",
                                      setIsSubmitting |-> FALSE]]
       IN  IF ~form.user
           THEN form' = Refused("User must be authenticated to create/update activities")
           ELSE IF ~validation.isValid
           THEN form' = Refused(validation.errors[1].message)
           ELSE form' = [form EXCEPT
                           !.isSubmitting = TRUE,
                           !.error = NoError,
                           !.pending = @ + 1,
                           !.last = [kind |-> "called", onError |-> NoError,
                                     returned |-> "pending",
                                     service |-> IF form.activityId # "none"
                                                 THEN "updateActivity"
                                                 ELSE "createActivity",
                                     setIsSubmitting |-> TRUE]]
    /\ UNCHANGED <<commentVars, rt, filmVars, readVars, panel, acts>>

\* the service call of a submission resolves: onSuccess, finally
serviceResolves ==
    /\ form.stage = "ready"
    /\ form.pending > 0
    /\ form' = [form EXCEPT !.pending = @ - 1, !.isSubmitting = FALSE,
                            !.last = NoSubmit]
    /\ UNCHANGED <<commentVars, rt, filmVars, readVars, panel, acts>>

\* the service call of a submission rejects: catch, finally
serviceRejects ==
    /\ form.stage = "ready"
    /\ form.pending > 0
    /\ form' = [form EXCEPT !.pending = @ - 1, !.isSubmitting = FALSE,
                            !.error = "Failed to save activity",
                            !.last = NoSubmit]
    /\ UNCHANGED <<commentVars, rt, filmVars, readVars, panel, acts>>

NextForm ==
    \/ \E user \in BOOLEAN : authChange(user)
    \/ \E input \in FieldInputs : updateField(input[1], input[2])
    \/ resetForm
    \/ setFormData(ValidFormData)
    \/ submitForm
    \/ serviceResolves
    \/ serviceRejects

SpecForm == InitForm /\ [][NextForm]_vars

\* C24: a submitForm call made without an authenticated user, or with form
\* data for which validateForm reports an error, calls neither createActivity
\* nor updateActivity: it sets error to the (first) message, hands it to
\* onError, returns null and does not set isSubmitting.
C24_RefusedSubmitCallsNoService ==
    LET errors == FormErrors(form.formData)
    IN  (/\ form.stage = "ready"
         /\ form.last # NoSubmit
         /\ ~form.user \/ Len(errors) > 0)
        => /\ form.last.kind = "refused"
           /\ form.last.service = "none"
           /\ form.last.setIsSubmitting = FALSE
           /\ form.last.returned = "null"
           /\ form.error = IF ~form.user
                           THEN "User must be authenticated to create/update activities"
                           ELSE errors[1].message
           /\ form.last.onError = form.error

\* An authenticated user submitted form data with two errors while an
\* earlier submission was waiting for the service.
C24_Witness ==
    /\ form.stage = "ready"
    /\ form.user
    /\ form.pending > 0
    /\ form.last # NoSubmit
    /\ form.last.kind = "refused"
    /\ Len(FormErrors(form.formData)) >= 2
    /\ form.error = "Event date cannot be in the past"

\* ---------------------------------------------------------------------------
\* The results of the featureFilmService operations, as functions of how
\* the calls that they await end
\* ---------------------------------------------------------------------------
\* how an awaited call ends: it resolves, it throws an Error, it throws
\* something that is not an Error
Resolves == [threw |-> FALSE]
ThrowsError(message) == [threw |-> TRUE, isError |-> TRUE, message |-> message]
ThrowsOther == [threw |-> TRUE, isError |-> FALSE]
Throwables == {Resolves, ThrowsError("permission-denied"), ThrowsOther}

\* What an operation meets: the ends of its primary write (addDoc,
\* updateDoc, deleteDoc), of the updateDoc that writes the urls, of its read
\* (getDoc, getDocs) and of its guest subcollection calls; whether the
\* document exists (the query is not empty) when read; whether the input
\* holds files and their upload fails; whether the input holds crew members.
Outcomes ==
    [write : Throwables, urlWrite : Throwables, read : Throwables,
     guests : Throwables, exists : BOOLEAN,
     upload : {"none", "ok", "fails"}, crew : BOOLEAN]

\* an awaited call, its end, and whether an inner try block catches it
Await(call, outcome, caught) ==
    <<[call |-> call, outcome |-> outcome, caught |-> caught]>>

AwaitIf(condition, call, outcome, caught) ==
    IF condition THEN Await(call, outcome, caught) ELSE <<>>

\* uploadFeatureFilmFiles / uploadEnhancedFilmFiles: every uploadFile is in a
\* try block of its own, a failure ends in the errors list
AwaitUpload(o) ==
    AwaitIf(o.upload # "none", "uploadFile",
            IF o.upload = "fails" THEN ThrowsError("upload failed") ELSE Resolves,
            TRUE)

\* { success: true, data }
Success == [settled |-> "resolved", success |-> TRUE, error |-> JsUndefined]
\* { success: false, error }
NoSuccess(error) == [settled |-> "resolved", success |-> FALSE, error |-> Str(error)]

\* (mutant) the catch block of an operation throws on
FailureRethrown(thrown, default) == [settled |-> "rejected"]

\* the catch block of an operation:
\* error instanceof Error ? error.message : default
Failure(thrown, default) ==
    NoSuccess(IF thrown.isError THEN thrown.message ELSE default)

\* An operation awaits its calls in order; the first one that throws outside
\* an inner try block takes it to its catch block, otherwise it returns.
Settle(awaited, default, return) ==
    LET uncaught == {i \in 1..Len(awaited) :
                        awaited[i].outcome.threw /\ ~awaited[i].caught}
    IN  IF uncaught = {}
        THEN [made |-> awaited, result |-> return]
        ELSE LET i == CHOOSE n \in uncaught : \A k \in uncaught : n <= k
             IN  [made   |-> SubSeq(awaited, 1, i),
                  result |-> Failure(awaited[i].outcome, default)]

createFeatureFilmResult(o) ==
    Settle(Await("addDoc", o.write, FALSE)
             \o AwaitUpload(o)
             \o AwaitIf(o.upload = "ok", "updateDoc (urls)", o.urlWrite, FALSE)
             \o AwaitIf(o.crew, "createMultipleGuests", o.guests, TRUE)
             \o Await("getDoc", o.read, FALSE),
           "Failed to create film",
           IF o.exists THEN Success
           ELSE NoSuccess("Film created but could not retrieve data"))

updateFeatureFilmResult(o) ==
    Settle(AwaitUpload(o)
             \o Await("updateDoc", o.write, FALSE)
             \o Await("deleteAllGuests, createMultipleGuests", o.guests, TRUE)
             \o Await("getDoc", o.read, FALSE),
           "Failed to update film in films collection",
           IF o.exists THEN Success
           ELSE NoSuccess("Film not found in films collection after update"))

deleteFeatureFilmResult(o) ==
    Settle(Await("deleteDoc", o.write, FALSE), "Failed to delete feature film",
           Success)

getFeatureFilmResult(o) ==
    Settle(Await("getDoc", o.read, FALSE)
             \o AwaitIf(o.exists, "getGuests", o.guests, TRUE),
           "Failed to get feature film",
           IF o.exists THEN Success ELSE NoSuccess("Feature film not found"))

getFeatureFilmsResult(o) ==
    Settle(Await("getDocs", o.read, FALSE), "Failed to get feature films", Success)

searchFeatureFilmsResult(o) ==
    Settle(Await("getDocs", o.read, FALSE), "Failed to search feature films",
           Success)

\* result = await getFeatureFilms(); if (!result.success || !result.data)
\* return result
getFeatureFilmStatsResult(o) ==
    LET listed == getFeatureFilmsResult(o)
    IN  IF ~listed.result.success THEN listed
        ELSE [made |-> listed.made, result |-> Success]

createEnhancedFeatureFilmResult(o) ==
    Settle(Await("addDoc", o.write, FALSE)
             \o AwaitUpload(o)
             \o AwaitIf(o.upload = "ok", "updateDoc (files)", o.urlWrite, FALSE),
           "Failed to create feature film", Success)

updateEnhancedFeatureFilmResult(o) ==
    Settle(AwaitUpload(o) \o Await("updateDoc", o.write, FALSE),
           "Failed to update feature film", Success)

getEnhancedFeatureFilmResult(o) ==
    Settle(Await("getDoc", o.read, FALSE), "Failed to get feature film",
           IF o.exists THEN Success ELSE NoSuccess("Feature film not found"))

getEnhancedFeatureFilmsResult(o) ==
    Settle(Await("getDocs", o.read, FALSE), "Failed to get feature films", Success)

deleteEnhancedFeatureFilmResult(o) ==
    Settle(Await("deleteDoc", o.write, FALSE), "Failed to delete feature film",
           Success)

getFeatureFilmBySlugResult(o) ==
    Settle(Await("getDocs", o.read, FALSE), "Failed to get feature film",
           IF o.exists THEN Success ELSE NoSuccess("Feature film not found"))

\* the exported async operations
Operations ==
    {"createFeatureFilm", "updateFeatureFilm", "deleteFeatureFilm",
     "getFeatureFilm", "getFeatureFilms", "getFeatureFilmsByCategory",
     "getFeatureFilmsByStatus", "searchFeatureFilms", "getFeatureFilmStats",
     "createEnhancedFeatureFilm", "updateEnhancedFeatureFilm",
     "getEnhancedFeatureFilm", "getEnhancedFeatureFilms",
     "deleteEnhancedFeatureFilm", "searchEnhancedFeatureFilms",
     "getEnhancedFeatureFilmsByStatus", "getPublishedFeatureFilms",
     "getFeatureFilmBySlug"}

ResultOf(operation, o) ==
    CASE operation = "createFeatureFilm" -> createFeatureFilmResult(o)
      [] operation = "updateFeatureFilm" -> updateFeatureFilmResult(o)
      [] operation = "deleteFeatureFilm" -> deleteFeatureFilmResult(o)
      [] operation = "getFeatureFilm" -> getFeatureFilmResult(o)
      [] operation \in {"getFeatureFilms", "getFeatureFilmsByCategory",
                        "getFeatureFilmsByStatus"} -> getFeatureFilmsResult(o)
      [] operation = "searchFeatureFilms" -> searchFeatureFilmsResult(o)
      [] operation = "getFeatureFilmStats" -> getFeatureFilmStatsResult(o)
      [] operation = "createEnhancedFeatureFilm" -> createEnhancedFeatureFilmResult(o)
      [] operation = "updateEnhancedFeatureFilm" -> updateEnhancedFeatureFilmResult(o)
      [] operation = "getEnhancedFeatureFilm" -> getEnhancedFeatureFilmResult(o)
      [] operation \in {"getEnhancedFeatureFilms", "searchEnhancedFeatureFilms",
                        "getEnhancedFeatureFilmsByStatus",
                        "getPublishedFeatureFilms"} -> getEnhancedFeatureFilmsResult(o)
      [] operation = "deleteEnhancedFeatureFilm" -> deleteEnhancedFeatureFilmResult(o)
      [] operation = "getFeatureFilmBySlug" -> getFeatureFilmBySlugResult(o)

\* an operation has been called
InitService ==
    /\ InitComments
    /\ rt = NoRoundTrip
    /\ film = NoFilm /\ guests = {} /\ serial = 0
    /\ uf = [p \in Callers |-> NoUpdate]
    /\ latest = NoLatest /\ legacy = NoConversion
    /\ NoUi
    /\ \E operation \in Operations, o \in Outcomes :
         svc = [stage |-> "called", operation |-> operation, o |-> o]

\* the promise of the operation settles
settle ==
    /\ svc.stage = "called"
    /\ LET settled == ResultOf(svc.operation, svc.o)
       IN  svc' = [stage |-> "settled", operation |-> svc.operation, o |-> svc.o,
                   made |-> settled.made, result |-> settled.result]
    /\ UNCHANGED <<commentVars, rt, filmVars, latest, legacy, uiVars>>

SpecService == InitService /\ [][settle]_vars

\* the calls that the operation made and that failed
FailedCalls == {i \in 1..Len(svc.made) : svc.made[i].outcome.threw}
\* those of them that no inner try block catches
UncaughtCalls == {i \in FailedCalls : ~svc.made[i].caught}

\* C25 (as stated): every operation resolves and never rejects; on any
\* store or upload failure it resolves with success = false and a non-empty
\* error string; a result with success = true carries no error.
C25_EveryFailureIsReported ==
    svc.stage = "settled" =>
        /\ svc.result.settled = "resolved"
        /\ FailedCalls # {} =>
              /\ svc.result.success = FALSE
              /\ svc.result.error.t = "string" /\ svc.result.error.v # ""
        /\ svc.result.success => svc.result.error = JsUndefined

\* C25 (amended): every operation resolves and never rejects; when its
\* primary write or its read fails it resolves with success = false and the
\* message of the Error, or the text of the operation when what was thrown is
\* no Error; a failed upload or guest subcollection call alone does not
\* change the result; a result with success = true carries no error, one
\* with success = false a non-empty one.
C25_PrimaryFailureIsReported ==
    svc.stage = "settled" =>
        /\ svc.result.settled = "resolved"
        /\ UncaughtCalls # {} =>
              /\ svc.result.success = FALSE
              /\ svc.result.error \in {Str("permission-denied"),
                     Str("Failed to create film"),
                     Str("Failed to update film in films collection"),
                     Str("Failed to delete feature film"),
                     Str("Failed to get feature film"),
                     Str("Failed to get feature films"),
                     Str("Failed to search feature films"),
                     Str("Failed to create feature film"),
                     Str("Failed to update feature film")}
        /\ UncaughtCalls = {} =>
              svc.result = ResultOf(svc.operation,
                              [svc.o EXCEPT !.guests = Resolves,
                                            !.upload = IF @ = "fails" THEN "none" ELSE @]).result
        /\ svc.result.success => svc.result.error = JsUndefined
        /\ ~svc.result.success =>
              svc.result.error.t = "string" /\ svc.result.error.v # ""

\* createFeatureFilm whose upload and guest creation failed has resolved
\* with success, and so the calls after them were made.
C25_Witness ==
    /\ svc.stage = "settled"
    /\ svc.operation = "createFeatureFilm"
    /\ \E i \in FailedCalls : svc.made[i].call = "uploadFile"
    /\ \E i \in FailedCalls : svc.made[i].call = "createMultipleGuests"
    /\ svc.made[Len(svc.made)].call = "getDoc"
    /\ svc.result = Success

\* C26: in every reachable state a comment with isEdited == true has a
\* non-empty editHistory, whether it was edited by updateComment or by
\* updateScoringComment.
C26_EditedHasHistory ==
    \A k \in Keys :
        docs[k].exists /\ docs[k].isEdited => docs[k].editHistory # <<>>

\* ---------------------------------------------------------------------------
\* The enhanced system on the films collection: films are stored by
\* createEnhancedFeatureFilm and listed by getEnhancedFeatureFilms
\* ---------------------------------------------------------------------------
MaxFilms == 2        \* documents in the films collection

\* filters: undefined
NoFilters == [status |-> JsUndefined]

\* the statuses of the enhanced system
FilmStatuses == {"draft", "published", "archived"}

\* A document as the legacy system stored it, accepted for the festival.
LegacyDoc ==
    [NoFields EXCEPT !.titleEn = Str("En"), !.director = Str("Ann"),
                     !.status = Str("Accepted")]

\* The document that createEnhancedFeatureFilm adds: the film data without
\* its files, with slug, files, createdBy, updatedBy and the timestamps.
EnhancedDoc(title, status) ==
    [NoFields EXCEPT !.title = Str(title), !.director = Str("Ann"),
                     !.status = Str(status), !.country = Str("Thailand"),
                     !.genres = Arr(<<Str("Drama")>>)]

\* the collection before any call of the enhanced system
InitEnhanced ==
    /\ InitComments
    /\ rt = NoRoundTrip
    /\ film = NoFilm /\ guests = {} /\ serial = 0
    /\ uf = [p \in Callers |-> NoUpdate]
    /\ svc = NoService
    /\ NoUi
    /\ \E stored \in {<<>>, <<[id |-> 1, by |-> "legacy", data |-> LegacyDoc]>>} :
         legacy = [stage |-> "films", stored |-> stored,
                   listed |-> [stage |-> "none"]]

\* createEnhancedFeatureFilm: addDoc on the films collection
createEnhancedFeatureFilm(status) ==
    /\ legacy.stage = "films"
    /\ Len(legacy.stored) < MaxFilms
    /\ legacy' = [legacy EXCEPT
                    !.stored = Append(@, [id |-> Len(legacy.stored) + 1,
                                          by |-> "createEnhancedFeatureFilm",
                                          data |-> EnhancedDoc("T", status)]),
                    !.listed = [stage |-> "none"]]
    /\ UNCHANGED <<commentVars, rt, filmVars, latest, svc, uiVars>>

\* filteredFilms.filter(film => film.status === filters.status)
StatusFilter(films, filters) ==
    IF Truthy(filters.status)
    THEN SelectSeq(films, LAMBDA f : Str(f.film.status) = filters.status)
    ELSE films

\* The films that getEnhancedFeatureFilms returns: every document of the
\* snapshot, newest first, goes through convertLegacyToEnhanced (one whose
\* conversion throws is skipped), then the filters are applied.
EnhancedFilms(stored, filters) ==
    LET n == Len(stored)
        snapshot  == [i \in 1..n |-> stored[n + 1 - i]]
        converted == [i \in 1..n |->
                        [id |-> snapshot[i].id,
                         film |-> convertLegacyToEnhanced(snapshot[i].data)]]
        films     == SelectSeq(converted, LAMBDA f : f.film # ConversionThrew)
    IN  StatusFilter(films, filters)

\* (caller: the exported operation through which the listing was called)
getEnhancedFeatureFilms(caller, filters, read) ==
    /\ legacy.stage = "films"
    /\ legacy' = [legacy EXCEPT
                    !.listed =
                       IF read.threw
                       THEN [stage |-> "listed", caller |-> caller,
                             filters |-> filters,
                             result |-> Failure(read, "Failed to get feature films")]
                       ELSE [stage |-> "listed", caller |-> caller,
                             filters |-> filters,
                             result |-> Success,
                             data |-> EnhancedFilms(legacy.stored, filters)]]
    /\ UNCHANGED <<commentVars, rt, filmVars, latest, svc, uiVars>>

\* getEnhancedFeatureFilms({ status })
getEnhancedFeatureFilmsByStatus(status, read) ==
    getEnhancedFeatureFilms("getEnhancedFeatureFilmsByStatus",
                            [status |-> Str(status)], read)

\* getEnhancedFeatureFilms({ status: 'published' })
getPublishedFeatureFilms(read) ==
    getEnhancedFeatureFilms("getPublishedFeatureFilms",
                            [status |-> Str("published")], read)

NextEnhanced ==
    \/ \E status \in FilmStatuses : createEnhancedFeatureFilm(status)
    \/ \E read \in Throwables :
         getEnhancedFeatureFilms("getEnhancedFeatureFilms", NoFilters, read)
    \/ \E status \in FilmStatuses, read \in Throwables :
         getEnhancedFeatureFilmsByStatus(status, read)
    \/ \E read \in Throwables : getPublishedFeatureFilms(read)

SpecEnhanced == InitEnhanced /\ [][NextEnhanced]_vars

\* the listing has returned the films
Listed == legacy.stage = "films" /\ legacy.listed.stage = "listed"
                                 /\ legacy.listed.result = Success

\* C27: a film stored by createEnhancedFeatureFilm is returned by
\* getEnhancedFeatureFilms with the status it was stored with: without a
\* status filter it is in the result with that status, and with the status
\* filter of its own status (getPublishedFeatureFilms for 'published') it is
\* in the result.
C27_ListedWithStoredStatus ==
    Listed =>
        \A i \in 1..Len(legacy.stored) :
            LET doc == legacy.stored[i]
            IN  (/\ doc.by = "createEnhancedFeatureFilm"
                 /\ legacy.listed.filters.status \in {JsUndefined, doc.data.status})
                => \E j \in 1..Len(legacy.listed.data) :
                      /\ legacy.listed.data[j].id = doc.id
                      /\ Str(legacy.listed.data[j].film.status) = doc.data.status


(***************************************************************************)
(* Claims about the teardown of a subscription                             *)
(***************************************************************************)
\* C28: once the caller has invoked the handle that subscribeToComments
\* returned, no listener installed by that call is active, whichever
\* listener (filtered, simple, unfiltered, or none after exhaustion) was the
\* current one, and from then on no listener is installed and the callback
\* is not invoked: a callback that was running may return, nothing else
\* happens to the subscription.
C28_TeardownLeavesNoListener ==
    [][ /\ sub'.state = "closed" => sub'.active = {}
        /\ sub.state = "closed" =>
              /\ sub'.state = "closed"
              /\ sub'.installed = sub.installed
              /\ sub'.handle = sub.handle
              /\ sub'.called => /\ sub.called
                                /\ sub'.delivered = sub.delivered
                                /\ sub'.via = sub.via
      ]_vars

\* C28 witness: the handle was invoked after a fallback re-subscription had
\* replaced the first listener, while comments were in the store.
C28_Witness ==
    /\ sub.state = "closed"
    /\ sub.installed >= 2
    /\ sub.handle # "filtered"
    /\ sub.active = {}
    /\ SomeLiveComment


(***************************************************************************)
(* Claims about the primary document of createFeatureFilm                  *)
(***************************************************************************)
\* C29: createFeatureFilm is all-or-nothing on the film document: a call
\* that returns success=false has not added a film document, that is, its
\* addDoc did not succeed.
C29_FailedCreateAddedNoFilm ==
    \A p \in Callers :
        (uf[p].pc = "returned" /\ uf[p].op = "create" /\ ~uf[p].success)
            => \A i \in 1..Len(uf[p].ops) : uf[p].ops[i] # Op("addDoc", TRUE)


(***************************************************************************)
(* useActivities: overlapping loads                                        *)
(***************************************************************************)
\* loads followed per hook
MaxLoads == 3

\* the limit option
Limit == 2

\* the values of response.total that are drawn
Totals == {0, 3}

\* const totalPages = Math.ceil(totalCount / limit)
totalPages(a) == (a.totalCount + Limit - 1) \div Limit

\* const hasMore = currentPage < totalPages
hasMore(a) == a.currentPage < totalPages(a)

\* The hook after its first render, its effect included.  activities holds,
\* for each run of activities, the number of the load whose response
\* supplied it.  pending: the getActivities calls not yet answered; issued:
\* the loads started; newest: the arguments of the load started last;
\* applied: the loads whose response was stored, in the order of storing;
\* failed: a getActivities call was rejected.
NoLoad == [pageToLoad |-> 0, append |-> FALSE]

Hook(page, autoLoad) ==
    [stage |-> "mounted", autoLoad |-> autoLoad,
     activities |-> <<>>, totalCount |-> 0, currentPage |-> page,
     isLoading |-> FALSE, error |-> NoError,
     pending |-> {}, issued |-> 0, newest |-> NoLoad, newestTotal |-> 0,
     applied |-> <<>>, failed |-> FALSE]

\* loadActivities(pageToLoad, append) up to its await
loadActivities(a, pageToLoad, append) ==
    [a EXCEPT !.isLoading = TRUE, !.error = NoError,
              !.issued = @ + 1,
              !.newest = [pageToLoad |-> pageToLoad, append |-> append],
              !.pending = @ \cup {[n |-> a.issued + 1,
                                   pageToLoad |-> pageToLoad,
                                   append |-> append]}]

\* useEffect: if (autoLoad) loadActivities(1, false)
autoLoadEffect(a) == IF a.autoLoad THEN loadActivities(a, 1, FALSE) ELSE a

InitActivities ==
    /\ ServicesAtRest
    /\ panel = NoPanel
    /\ form = NoForm
    /\ \E page \in {1, 2}, autoLoad \in BOOLEAN :
         acts = autoLoadEffect(Hook(page, autoLoad))

CanLoad == acts.stage = "mounted" /\ acts.issued < MaxLoads

\* filters, sortBy or limit change: loadActivities is a new function and
\* the effect runs again
dependenciesChange ==
    /\ CanLoad
    /\ acts.autoLoad
    /\ acts' = autoLoadEffect(acts)
    /\ UNCHANGED <<commentVars, rt, filmVars, readVars, panel, form>>

\* the loadActivities of the returned object: () => loadActivities(1, false)
loadActivitiesCall ==
    /\ CanLoad
    /\ acts' = loadActivities(acts, 1, FALSE)
    /\ UNCHANGED <<commentVars, rt, filmVars, readVars, panel, form>>

\* loadMore(): the next page is appended
loadMore ==
    /\ CanLoad
    /\ hasMore(acts) /\ ~acts.isLoading
    /\ acts' = loadActivities(acts, acts.currentPage + 1, TRUE)
    /\ UNCHANGED <<commentVars, rt, filmVars, readVars, panel, form>>

\* refresh()
refresh ==
    /\ CanLoad
    /\ acts' = loadActivities([acts EXCEPT !.currentPage = 1], 1, FALSE)
    /\ UNCHANGED <<commentVars, rt, filmVars, readVars, panel, form>>

\* getActivities of a pending load resolves with response: the rest of
\* loadActivities
getActivitiesResolves(load, total) ==
    /\ acts.stage = "mounted"
    /\ load \in acts.pending
    /\ acts' = [acts EXCEPT
                   !.activities  = IF load.append THEN Append(@, load.n)
                                   ELSE <<load.n>>,
                   !.totalCount  = total,
                   !.currentPage = load.pageToLoad,
                   !.isLoading   = FALSE,
                   !.pending     = @ \ {load},
                   !.newestTotal = IF load.n = acts.issued THEN total ELSE @,
                   !.applied     = Append(@, load.n)]
    /\ UNCHANGED <<commentVars, rt, filmVars, readVars, panel, form>>

\* getActivities of a pending load rejects: the catch and the finally
getActivitiesRejects(load) ==
    /\ acts.stage = "mounted"
    /\ load \in acts.pending
    /\ acts' = [acts EXCEPT !.error     = "Failed to load activities",
                            !.isLoading = FALSE,
                            !.pending   = @ \ {load},
                            !.failed    = TRUE]
    /\ UNCHANGED <<commentVars, rt, filmVars, readVars, panel, form>>

NextActivities ==
    \/ dependenciesChange
    \/ loadActivitiesCall
    \/ loadMore
    \/ refresh
    \/ \E load \in acts.pending, total \in Totals :
          getActivitiesResolves(load, total)
    \/ \E load \in acts.pending : getActivitiesRejects(load)

SpecActivities == InitActivities /\ [][NextActivities]_vars

\* C30: when every load of a hook has completed, none of them rejected, the
\* list, the count and the page are those of the load issued last: its
\* response was the last one stored, the list ends with its activities (and
\* is them alone when it did not append), totalCount is its total,
\* currentPage is its page, and no response was stored after the response
\* of a load issued later.
C30_NewestLoadWins ==
    (acts.stage = "mounted" /\ acts.pending = {} /\ acts.issued > 0
        /\ ~acts.failed)
    => /\ acts.applied[Len(acts.applied)] = acts.issued
       /\ acts.activities[Len(acts.activities)] = acts.issued
       /\ ~acts.newest.append => acts.activities = <<acts.issued>>
       /\ acts.totalCount = acts.newestTotal
       /\ acts.currentPage = acts.newest.pageToLoad
       /\ \A i, j \in 1..Len(acts.applied) :
             i < j => acts.applied[i] < acts.applied[j]

====
